---- MODULE Spec2Model ----
(***************************************************************************)
(* A model of three subsystems of laitos:                                  *)
(*   - the password web server of launcher/passwdserver/web_server.go      *)
(*     (pageHandler, LaunchMainProgram), specification UnlockSpec;         *)
(*   - the cipher framing of daemon/sockd/tcp.go (TCPCipherConnection      *)
(*     Read and Write), specification CipherSpec;                          *)
(*   - the request parsing and destination policy of daemon/sockd/tcp.go   *)
(*     (ParseRequest, HandleTCPConnection), specification ProxySpec.       *)
(* Text is modelled as a sequence of one-character strings or of byte      *)
(* values, so that prefix tests, formatting and parsing are computed.      *)
(***************************************************************************)
EXTENDS Integers, Sequences, FiniteSets, TLC

VARIABLES
    \* ---- passwdserver.WebServer ----
    reqs,             \* the HTTP requests: position in the handler, inputs, response
    handlerMutex,     \* ws.handlerMutex: 0 when free, else the request holding it
    alreadyUnlocked,  \* ws.alreadyUnlocked
    ramdiskDir,       \* ws.ramdiskDir: 0 for "", else the ramdisk's number
    mounted,          \* the ramdisks mounted on the host (StaleRamdisk: a previous process's)
    destroyed,        \* the ramdisks DestroyRamdisk was called on by this process
    nextRamdisk,      \* the number MakeRamdisk gives its next ramdisk
    extractCalls,     \* how many times encarchive.Extract was called
    extractOK,        \* how many of them succeeded
    launches,         \* how many times "go ws.LaunchMainProgram()" was executed
    lmpc,             \* the position of the LaunchMainProgram goroutine
    flagsNoExec,      \* LaunchMainProgram's local flagsNoExec
    osArgs,           \* os.Args as LaunchMainProgram read it
    server,           \* the http.Server: "serving", "closing" (listener closed), "closed"
    shutdownResult,   \* what ws.Shutdown() returned: "pending", "ok", "err"
    child,            \* the child process: "none", "running", "exited", "failed"
    childArgs,        \* the argument list the child was started with
    process,          \* this process: "running", or "aborted" after logger.Abort
    \* ---- sockd.TCPCipherConnection: the writing end and the reading end of one direction ----
    encStream,        \* writer: conn.EncryptionStream != nil
    encIV,            \* writer: the IV InitEncryptionStream returned
    encPos,           \* writer: how many keystream bytes Encrypt has used
    written,          \* the buffers given to Write, concatenated
    writeFailed,      \* an underlying write returned an error
    wire,             \* the bytes the underlying writes put on the stream
    wireKind,         \* for each byte of the wire: "iv" or "ct"
    decStream,        \* reader: conn.DecryptionStream != nil
    decIV,            \* reader: the IV given to InitDecryptionStream
    decPos,           \* reader: how many keystream bytes Decrypt has used
    connIV,           \* reader: conn.IV
    rpc,              \* reader: the position inside Read: "idle", "iv", "data"
    rlen,             \* reader: len(b) of the Read in progress
    ivBuf,            \* reader: the bytes io.ReadFull has put into iv so far
    rpos,             \* how many bytes of the wire the underlying reads have taken
    received,         \* the bytes Read has put into its callers' buffers, concatenated
    readFailed,       \* an underlying read returned an error
    shortRead,        \* an underlying read gave fewer bytes than it was asked for
    \* ---- sockd: one client connection in HandleTCPConnection ----
    pStream,          \* the plaintext bytes the client delivers before it stalls
    ppc,              \* the position in HandleTCPConnection
    parsed,           \* what ParseRequest returned
    clientConn,       \* the client connection: "open" or "closed"
    destConn,         \* the destination connection: "none" or "open"
    dials,            \* the destinations net.DialTimeout was called with, in order
    padding,          \* WriteRandAndClose's random bytes: "none", "written", "failed"
    blackList,        \* dnsd.Daemon.blackList: a set of names and IP texts
    \* ---- sockd: the two pipes of one proxied session ----
    lockDown,         \* misc.EmergencyLockDown
    pipes,            \* for "up" (client to destination) and "down": the position in PipeTCPConnection
    upWire,           \* the ciphertext the client sends after its request
    destIn,           \* the bytes written to the destination
    destOut,          \* the bytes the destination sends
    destPos,          \* how many of them the reads have taken
    faults,           \* how many transfers failed though they could have succeeded
    \* ---- dnsd: the blacklist update and the lookups ----
    blackListUpdating, \* dnsd.Daemon.blackListUpdating
    blackListMutex,   \* dnsd.Daemon.blackListMutex: its writer, the waiting writers, its readers
    updaters,         \* for each caller of UpdateBlackList: its position and its locals
    lookups,          \* for each caller of IsInBlacklist: its position and its locals
    \* ---- dnsd: the clients that may query ----
    daemonState,      \* "new", and what Initialise made of the daemon: "ready" or "failed"
    AllowQueryIPPrefixes, \* dnsd.Daemon.AllowQueryIPPrefixes
    myPublicIP,       \* dnsd.Daemon.myPublicIP
    allowQueryLastUpdate, \* dnsd.Daemon.allowQueryLastUpdate
    allowQueryMutex,  \* dnsd.Daemon.allowQueryMutex: "free" or its holder
    now,              \* time.Now().Unix()
    ticks,            \* how many times the clock was moved
    queries,          \* for each caller of checkAllowClientIP: its position and its locals
    \* ---- dnsd: the latest TXT commands ----
    latestCommands,   \* LatestCommands: for each command text, its result and expiresAt
    cacheNow,         \* time.Now().Unix() as the cache sees it
    cacheTicks,       \* how many times that clock was moved
    txtReply,         \* the last TXT command query and what it got
    processed,        \* for each command text, the last run of the command processor
    \* ---- dnsd: the listeners and StartAndBlock ----
    listenPorts,      \* the listeners that are configured (UDPPort, TCPPort not 0)
    servers,          \* daemon.udpServer and daemon.tcpServer: state, stopped, calls of Stop
    listenerRoutines, \* for each listener, the goroutine StartAndBlock starts for it
    errChan,          \* the channel errChan
    stopAdBlockUpdater, \* how many values the channel stopAdBlockUpdater holds
    adBlockUpdater,   \* the goroutine that updates the blacklist
    sab,              \* the caller of Daemon.StartAndBlock: its position and its locals
    stopper,          \* the caller of Daemon.Stop: its position and the number of its calls
    \* ---- lalog: ByteLogWriter ----
    maxBytes,         \* ByteLogWriter.MaxBytes, the capacity
    latestBuf,        \* the ring buffer
    latestPos,        \* where the next byte goes
    everFull,         \* whether the buffer was filled once
    logHistory,       \* every byte that was written, in order
    \* ---- sockd: what the last Write returned ----
    lastWrite,        \* the last call of Write: len(buf), the n it returned, whether it failed
    \* ---- sockd: two callers of Write on one connection ----
    connMutex,        \* TCPCipherConnection.mutex: free, or its holder
    connStream,       \* whether EncryptionStream is not nil
    connPos,          \* how far the keystream was consumed
    ivDraws,          \* how many times InitEncryptionStream was called
    connWire,         \* what conn.Conn.Write took: each byte's kind, keystream position, caller
    callers,          \* for each caller of Write: its position and its locals
    \* ---- sockd: one call of ParseRequest ----
    parseStream,      \* the decrypted bytes the connection gives to ParseRequest
    parseOut,         \* whether ParseRequest was called, what it returned, the bytes it asked for
    \* ---- passwdserver: the size of the ramdisk ----
    ramdiskAsk,       \* ws.archiveFileSize, and the size in MB MakeRamdisk was called with
    \* ---- misc: one call of InvokeProgram ----
    invocation,       \* the call of InvokeProgram: its position and locals, the timer, the program
    \* ---- dnsd: the loop of the blacklist updater ----
    updaterLoop,      \* firstTime, whether the timer of the select has expired, the updates started after the stop signal
    \* ---- dnsd: one call of IsInBlacklist, turn by turn ----
    stripper          \* the call: its position, nameOrIP, blackListCandidates and result

unlockVars == <<reqs, handlerMutex, alreadyUnlocked, ramdiskDir, mounted, destroyed,
                nextRamdisk, extractCalls, extractOK, launches, lmpc, flagsNoExec,
                osArgs, server, shutdownResult, child, childArgs, process>>

cipherVars == <<encStream, encIV, encPos, written, writeFailed, wire, wireKind,
                decStream, decIV, decPos, connIV, rpc, rlen, ivBuf, rpos, received,
                readFailed, shortRead>>

proxyVars == <<pStream, ppc, parsed, clientConn, destConn, dials, padding, blackList>>

pipeVars == <<lockDown, pipes, upWire, destIn, destOut, destPos, faults>>

dnsVars == <<blackListUpdating, blackListMutex, updaters, lookups>>

\* The proxy's variables but the blacklist
sessionVars == <<pStream, ppc, parsed, clientConn, destConn, dials, padding>>

allowVars == <<daemonState, AllowQueryIPPrefixes, myPublicIP, allowQueryLastUpdate,
               allowQueryMutex, now, ticks, queries>>

cacheVars == <<latestCommands, cacheNow, cacheTicks, txtReply, processed>>

listenVars == <<listenPorts, servers, listenerRoutines, errChan, stopAdBlockUpdater,
                adBlockUpdater, sab, stopper>>

logVars == <<maxBytes, latestBuf, latestPos, everFull, logHistory>>

returnVars == <<lastWrite>>

serialVars == <<connMutex, connStream, connPos, ivDraws, connWire, callers>>

parseVars == <<parseStream, parseOut>>

sizeVars == <<ramdiskAsk>>

invokeVars == <<invocation>>

updaterVars == <<updaterLoop>>

stripVars == <<stripper>>

\* The variables of the smaller components
serviceVars == <<allowVars, cacheVars, listenVars, logVars, returnVars, serialVars, parseVars, sizeVars, invokeVars, updaterVars, stripVars>>

vars == <<unlockVars, cipherVars, proxyVars, pipeVars, dnsVars, serviceVars>>

\* The variables of the larger components
coreVars == <<unlockVars, cipherVars, proxyVars, pipeVars, dnsVars>>

\* What each subsystem leaves alone
nonUnlockVars == <<cipherVars, proxyVars, pipeVars, dnsVars, serviceVars>>
nonCipherVars == <<unlockVars, proxyVars, pipeVars, dnsVars, serviceVars>>
nonProxyVars == <<unlockVars, cipherVars, pipeVars, dnsVars, serviceVars>>
nonDnsVars == <<unlockVars, cipherVars, pipeVars, serviceVars>>
nonAllowVars == <<coreVars, cacheVars, listenVars, logVars, returnVars, serialVars, parseVars, sizeVars, invokeVars, updaterVars, stripVars>>
nonCacheVars == <<coreVars, allowVars, listenVars, logVars, returnVars, serialVars, parseVars, sizeVars, invokeVars, updaterVars, stripVars>>
nonListenVars == <<coreVars, allowVars, cacheVars, logVars, returnVars, serialVars, parseVars, sizeVars, invokeVars, updaterVars, stripVars>>
nonLogVars == <<coreVars, allowVars, cacheVars, listenVars, returnVars, serialVars, parseVars, sizeVars, invokeVars, updaterVars, stripVars>>
nonSerialVars == <<coreVars, allowVars, cacheVars, listenVars, logVars, returnVars, parseVars, sizeVars, invokeVars, updaterVars, stripVars>>
nonParseVars == <<coreVars, allowVars, cacheVars, listenVars, logVars, returnVars, serialVars, sizeVars, invokeVars, updaterVars, stripVars>>
nonSizeVars == <<coreVars, allowVars, cacheVars, listenVars, logVars, returnVars, serialVars, parseVars, invokeVars, updaterVars, stripVars>>
nonInvokeVars == <<coreVars, allowVars, cacheVars, listenVars, logVars, returnVars, serialVars, parseVars, sizeVars, updaterVars, stripVars>>
nonUpdaterVars == <<coreVars, allowVars, cacheVars, listenVars, logVars, returnVars, serialVars, parseVars, sizeVars, invokeVars, stripVars>>
nonStripVars == <<unlockVars, cipherVars, proxyVars, pipeVars, allowVars, cacheVars, listenVars, logVars, returnVars, serialVars, parseVars, sizeVars, invokeVars, updaterVars>>
\* The smaller components but the record of the last Write
nonReturnVars == <<allowVars, cacheVars, listenVars, logVars, serialVars, parseVars, sizeVars, invokeVars, updaterVars, stripVars>>

(***************************************************************************)
(* Bounds                                                                  *)
(***************************************************************************)
NumRequests == 2
MaxArgs == 2
MaxPlain == 3
MaxReadLen == 2
MaxRelay == 2
MaxFaults == 1
MaxDownload == 4
MaxTicks == 3
\* How many times Daemon.Stop is called from outside
MaxStops == 2
\* How many bytes are written to a ByteLogWriter
MaxLogged == 20
\* The archive files are up to this many half MiB long
MaxArchiveHalfMiB == 20
\* The updates of the blacklist are counted up to this many
MaxUpdates == 2

Requests == 1..NumRequests

(***************************************************************************)
(* Text helpers                                                            *)
(***************************************************************************)
\* strings.HasPrefix(s, prefix)
HasPrefix(s, prefix) ==
    /\ Len(s) >= Len(prefix)
    /\ SubSeq(s, 1, Len(prefix)) = prefix

\* All sequences over S of length at most n
SeqsUpTo(S, n) == UNION {[1..k -> S] : k \in 0..n}

\* The elements of a sequence
Range(q) == {q[i] : i \in 1..Len(q)}

\* The prefixes of a sequence
Prefixes(q) == {SubSeq(q, 1, k) : k \in 0..Len(q)}

(***************************************************************************)
(* passwdserver: constants                                                 *)
(***************************************************************************)
ContentLocationMagic == "vmseuijt5oj4d5x7fygfqj4398"
CacheControlValue == "no-cache, no-store, must-revalidate"
\* CLIFlag = `pwdserver`
CLIFlag == <<"p", "w", "d", "s", "e", "r", "v", "e", "r">>

\* ws.URL, the secret path, and the paths a client may ask for
URL == "/secret"
Paths == {URL, "/other"}
\* What a client sends: a GET carries no password field, a POST carries the
\* right password or a wrong one.
RequestInputs ==
    {[method |-> "GET", path |-> p, password |-> "none"] : p \in Paths}
    \cup {[method |-> "POST", path |-> p, password |-> pw] : p \in Paths, pw \in {"good", "bad"}}

StaleRamdisk == 0
\* The page with its second %s filled in
Page(msg) == <<"PageHTML", msg>>

\* The arguments a command line is made of: the flag itself, a flag of its
\* family, a double-dash spelling and a value.
ArgPool == {
    <<"-">> \o CLIFlag,
    <<"-">> \o CLIFlag \o <<"u", "r", "l">>,
    <<"-", "-">> \o CLIFlag,
    <<"a">> }
Executable == <<"l", "a", "i", "t", "o", "s">>
\* os.Args: the executable, then at most MaxArgs arguments
ArgVectors == {<<Executable>> \o a : a \in SeqsUpTo(ArgPool, MaxArgs)}

NoResp == [sent |-> FALSE, status |-> 0, body |-> <<>>, contentLocation |-> "",
           cacheControl |-> ""]
NewReq == [pc |-> "new", method |-> "GET", path |-> "/", password |-> "bad",
           contentLocation |-> "", cacheControl |-> "", resp |-> NoResp,
           afterUnlock |-> FALSE, ramdisk |-> 0, madeRamdisk |-> FALSE,
           calledExtract |-> FALSE, launched |-> FALSE, outcome |-> "none"]

\* The web server as Start leaves it, with the ramdisks `stale` left mounted
\* by a previous process
UnlockBoot(stale) ==
    /\ reqs = [r \in Requests |-> NewReq]
    /\ handlerMutex = 0
    /\ alreadyUnlocked = FALSE
    /\ ramdiskDir = 0
    /\ mounted = stale
    /\ destroyed = {}
    /\ nextRamdisk = 1
    /\ extractCalls = 0
    /\ extractOK = 0
    /\ launches = 0
    /\ lmpc = "none"
    /\ flagsNoExec = <<>>
    /\ osArgs = <<>>
    /\ server = "serving"
    /\ shutdownResult = "pending"
    /\ child = "none"
    /\ childArgs = <<>>
    /\ process = "running"

(***************************************************************************)
(* passwdserver: the HTTP handlers                                         *)
(***************************************************************************)
\* http.ResponseWriter.Write: the first write sends status 200 and the
\* headers set so far, then the body.
WriteBody(q, body) ==
    [q EXCEPT !.resp = [sent |-> TRUE, status |-> 200, body |-> body,
                        contentLocation |-> q.contentLocation,
                        cacheControl |-> q.cacheControl]]

\* The handler returns: the deferred ws.handlerMutex.Unlock() runs.
Return(r, q, outcome) ==
    /\ reqs' = [reqs EXCEPT ![r] = [q EXCEPT !.pc = "done", !.outcome = outcome]]
    /\ handlerMutex' = 0

\* A client connects and sends a request; the listener accepts it. Requests
\* are numbered in the order they are accepted.
Accept(r) ==
    /\ process = "running"
    /\ server = "serving"
    /\ reqs[r].pc = "new"
    /\ \A o \in Requests : o < r => reqs[o].pc # "new"
    /\ \E in \in RequestInputs :
         reqs' = [reqs EXCEPT ![r] = [@ EXCEPT !.pc = "mux", !.method = in.method,
                                                !.path = in.path,
                                                !.password = in.password,
                                                !.afterUnlock = alreadyUnlocked]]
    /\ UNCHANGED <<handlerMutex, alreadyUnlocked, ramdiskDir, mounted, destroyed,
                   nextRamdisk, extractCalls, extractOK, launches, lmpc, flagsNoExec,
                   osArgs, server, shutdownResult, child, childArgs, process>>
    /\ UNCHANGED nonUnlockVars

\* mux.HandleFunc(ws.URL, ws.pageHandler): whether the mux gives the path to pageHandler
RoutesToPageHandler(path) == path = URL

\* The mux of Start: the secret URL goes to pageHandler, every other path to
\* the empty handler, whose return sends 200 with no body.
ServeMux(r) ==
    /\ process = "running"
    /\ reqs[r].pc = "mux"
    /\ IF RoutesToPageHandler(reqs[r].path)
       THEN reqs' = [reqs EXCEPT ![r].pc = "headers"]
       ELSE reqs' = [reqs EXCEPT ![r] = [WriteBody(@, <<>>) EXCEPT !.pc = "done",
                                                                 !.outcome = "empty"]]
    /\ UNCHANGED <<handlerMutex, alreadyUnlocked, ramdiskDir, mounted, destroyed,
                   nextRamdisk, extractCalls, extractOK, launches, lmpc, flagsNoExec,
                   osArgs, server, shutdownResult, child, childArgs, process>>
    /\ UNCHANGED nonUnlockVars

\* Lines 109-110, mutated: the Content-Location header is forgotten.
SetHeadersWithoutMagic(q) == [q EXCEPT !.cacheControl = CacheControlValue]

\* pageHandler, lines 109-110: the two headers
SetHeaders(q) ==
    [q EXCEPT !.cacheControl = CacheControlValue, !.contentLocation = ContentLocationMagic]

PageHandlerHeaders(r) ==
    /\ process = "running"
    /\ reqs[r].pc = "headers"
    /\ reqs' = [reqs EXCEPT ![r] = [SetHeaders(@) EXCEPT !.pc = "lock"]]
    /\ UNCHANGED <<handlerMutex, alreadyUnlocked, ramdiskDir, mounted, destroyed,
                   nextRamdisk, extractCalls, extractOK, launches, lmpc, flagsNoExec,
                   osArgs, server, shutdownResult, child, childArgs, process>>
    /\ UNCHANGED nonUnlockVars

\* Line 111, mutated: Lock never waits.
MutexNeverBlocks == TRUE

\* Whether ws.handlerMutex.Lock() can return
MutexFree == handlerMutex = 0

\* pageHandler, line 111: ws.handlerMutex.Lock()
PageHandlerLock(r) ==
    /\ process = "running"
    /\ reqs[r].pc = "lock"
    /\ MutexFree
    /\ handlerMutex' = r
    /\ reqs' = [reqs EXCEPT ![r].pc = "check"]
    /\ UNCHANGED <<alreadyUnlocked, ramdiskDir, mounted, destroyed,
                   nextRamdisk, extractCalls, extractOK, launches, lmpc, flagsNoExec,
                   osArgs, server, shutdownResult, child, childArgs, process>>
    /\ UNCHANGED nonUnlockVars

\* Line 113, mutated: the test is dropped.
UnlockedNeverSeen == FALSE

\* pageHandler, line 113: the test of ws.alreadyUnlocked
SeesUnlocked == alreadyUnlocked

\* pageHandler, lines 113-118 and 153-157: the OK reply once unlocked, the
\* plain page for any method but POST, and the way into the POST branch.
PageHandlerCheck(r) ==
    /\ process = "running"
    /\ reqs[r].pc = "check"
    /\ IF SeesUnlocked
       THEN Return(r, WriteBody(reqs[r], <<"OK">>), "ok")
       ELSE IF reqs[r].method = "POST"
       THEN /\ reqs' = [reqs EXCEPT ![r].pc = "ramdisk"]
            /\ UNCHANGED handlerMutex
       ELSE Return(r, WriteBody(reqs[r], Page("")), "visit")
    /\ UNCHANGED <<alreadyUnlocked, ramdiskDir, mounted, destroyed,
                   nextRamdisk, extractCalls, extractOK, launches, lmpc, flagsNoExec,
                   osArgs, server, shutdownResult, child, childArgs, process>>
    /\ UNCHANGED nonUnlockVars

\* pageHandler, lines 123-127: encarchive.MakeRamdisk mounts a new ramdisk
\* and names it, or fails.
PageHandlerMakeRamdisk(r) ==
    /\ process = "running"
    /\ reqs[r].pc = "ramdisk"
    /\ \/ /\ ramdiskDir' = nextRamdisk
          /\ mounted' = mounted \cup {nextRamdisk}
          /\ nextRamdisk' = nextRamdisk + 1
          /\ reqs' = [reqs EXCEPT ![r] = [@ EXCEPT !.pc = "tempfile", !.madeRamdisk = TRUE,
                                                   !.ramdisk = nextRamdisk]]
          /\ UNCHANGED handlerMutex
       \/ /\ ramdiskDir' = 0
          /\ UNCHANGED <<mounted, nextRamdisk>>
          /\ Return(r, WriteBody(reqs[r], Page("ramdisk error")), "ramdisk_err")
    /\ UNCHANGED <<alreadyUnlocked, destroyed, extractCalls, extractOK, launches, lmpc,
                   flagsNoExec, osArgs, server, shutdownResult, child, childArgs, process>>
    /\ UNCHANGED nonUnlockVars

\* pageHandler, lines 129-140: ioutil.TempFile inside the ramdisk; when it
\* succeeds, encarchive.TryDestroyAllRamdisks removes what a previous
\* process left mounted.
PageHandlerTempFile(r) ==
    /\ process = "running"
    /\ reqs[r].pc = "tempfile"
    /\ \/ /\ reqs' = [reqs EXCEPT ![r].pc = "extract"]
          /\ mounted' = mounted \ {StaleRamdisk}
          /\ UNCHANGED handlerMutex
       \/ /\ Return(r, WriteBody(reqs[r], Page("tempfile error")), "tempfile_err")
          /\ UNCHANGED mounted
    /\ UNCHANGED <<alreadyUnlocked, ramdiskDir, destroyed, nextRamdisk, extractCalls,
                   extractOK, launches, lmpc, flagsNoExec, osArgs, server, shutdownResult,
                   child, childArgs, process>>
    /\ UNCHANGED nonUnlockVars

\* pageHandler, lines 142-152: Extract fails on a wrong password and may
\* fail on a good one (a decryption error); on failure the ramdisk is
\* destroyed, on success the unlock is committed and LaunchMainProgram is
\* started as a goroutine.
PageHandlerExtract(r) ==
    /\ process = "running"
    /\ reqs[r].pc = "extract"
    /\ extractCalls' = extractCalls + 1
    /\ \/ /\ reqs[r].password = "good"
          /\ extractOK' = extractOK + 1
          /\ alreadyUnlocked' = TRUE
          /\ launches' = launches + 1
          /\ lmpc' = IF lmpc = "none" THEN "start" ELSE lmpc
          /\ Return(r, [WriteBody(reqs[r], Page("success"))
                          EXCEPT !.calledExtract = TRUE, !.launched = TRUE], "success")
          /\ UNCHANGED <<mounted, destroyed>>
       \/ /\ mounted' = mounted \ {ramdiskDir}
          /\ destroyed' = destroyed \cup {ramdiskDir}
          /\ Return(r, [WriteBody(reqs[r], Page("extract error"))
                          EXCEPT !.calledExtract = TRUE], "extract_err")
          /\ UNCHANGED <<alreadyUnlocked, extractOK, launches, lmpc>>
    /\ UNCHANGED <<ramdiskDir, nextRamdisk, flagsNoExec, osArgs, server, shutdownResult,
                   child, childArgs, process>>
    /\ UNCHANGED nonUnlockVars

(***************************************************************************)
(* passwdserver: LaunchMainProgram                                         *)
(***************************************************************************)
\* encarchive.DestroyRamdisk(dir): the mounts left
DestroyRamdisk(dir) == mounted \ {dir}

\* LaunchMainProgram, line 235: the condition given to RemoveFromFlags
IsPasswdServerFlag(s) == HasPrefix(s, <<"-">> \o CLIFlag)

\* launcher.RemoveFromFlags(condition, flags) with the condition of line 235:
\* the flags without those the condition holds of
RemoveFromFlags(flags) == SelectSeq(flags, LAMBDA s : ~IsPasswdServerFlag(s))

\* LaunchMainProgram, lines 214-215:
\*   flagsNoExec := make([]string, len(os.Args)); copy(flagsNoExec, os.Args[1:])
\* make gives len(os.Args) empty strings, copy overwrites the first len(os.Args)-1.
CopyOfArgs(args) ==
    [i \in 1..Len(args) |-> IF i <= Len(args) - 1 THEN args[i + 1] ELSE <<>>]

\* Lines 214-218: read os.Args, then call ws.Shutdown(), whose first effect
\* is to close the listener.
LMStart ==
    /\ process = "running"
    /\ lmpc = "start"
    /\ \E a \in ArgVectors :
         /\ osArgs' = a
         /\ flagsNoExec' = CopyOfArgs(a)
    /\ server' = "closing"
    /\ lmpc' = "shutdown"
    /\ UNCHANGED <<reqs, handlerMutex, alreadyUnlocked, ramdiskDir, mounted, destroyed,
                   nextRamdisk, extractCalls, extractOK, launches, shutdownResult, child,
                   childArgs, process>>
    /\ UNCHANGED nonUnlockVars

\* Every handler has returned
ServerIdle == \A r \in Requests : reqs[r].pc \in {"new", "done"}

\* Lines 218-221, mutated: the error of Shutdown is dropped.
LMShutdownErrorIgnored ==
    /\ process = "running"
    /\ lmpc = "shutdown"
    /\ \/ /\ ServerIdle
          /\ server' = "closed"
          /\ shutdownResult' = "ok"
       \/ /\ shutdownResult' = "err"
          /\ UNCHANGED server
    /\ lmpc' = "executable"
    /\ UNCHANGED <<reqs, handlerMutex, alreadyUnlocked, ramdiskDir, mounted, destroyed,
                   nextRamdisk, extractCalls, extractOK, launches, flagsNoExec, osArgs,
                   child, childArgs, process>>
    /\ UNCHANGED nonUnlockVars

\* Lines 218-221: Shutdown returns nil once every connection is idle, or an
\* error (its 10 s context ran out); the error goes to fatalExit.
LMShutdown ==
    /\ process = "running"
    /\ lmpc = "shutdown"
    /\ \/ /\ ServerIdle
          /\ server' = "closed"
          /\ shutdownResult' = "ok"
          /\ lmpc' = "executable"
       \/ /\ shutdownResult' = "err"
          /\ lmpc' = "fatalExit"
          /\ UNCHANGED server
    /\ UNCHANGED <<reqs, handlerMutex, alreadyUnlocked, ramdiskDir, mounted, destroyed,
                   nextRamdisk, extractCalls, extractOK, launches, flagsNoExec, osArgs,
                   child, childArgs, process>>
    /\ UNCHANGED nonUnlockVars

\* Lines 223-227: os.Executable()
LMExecutable ==
    /\ process = "running"
    /\ lmpc = "executable"
    /\ lmpc' \in {"chdir", "fatalExit"}
    /\ UNCHANGED <<reqs, handlerMutex, alreadyUnlocked, ramdiskDir, mounted, destroyed,
                   nextRamdisk, extractCalls, extractOK, launches, flagsNoExec, osArgs,
                   server, shutdownResult, child, childArgs, process>>
    /\ UNCHANGED nonUnlockVars

\* Lines 229-232: os.Chdir(ws.ramdiskDir)
LMChdir ==
    /\ process = "running"
    /\ lmpc = "chdir"
    /\ lmpc' \in {"command", "fatalExit"}
    /\ UNCHANGED <<reqs, handlerMutex, alreadyUnlocked, ramdiskDir, mounted, destroyed,
                   nextRamdisk, extractCalls, extractOK, launches, flagsNoExec, osArgs,
                   server, shutdownResult, child, childArgs, process>>
    /\ UNCHANGED nonUnlockVars

\* Lines 234-248: the flags are filtered, the command is built from them and
\* started; a failed start goes to fatalExit.
LMCommand ==
    /\ process = "running"
    /\ lmpc = "command"
    /\ flagsNoExec' = RemoveFromFlags(flagsNoExec)
    /\ \/ /\ child' = "running"
          /\ childArgs' = flagsNoExec'
          /\ lmpc' = "wait"
       \/ /\ lmpc' = "fatalExit"
          /\ UNCHANGED <<child, childArgs>>
    /\ UNCHANGED <<reqs, handlerMutex, alreadyUnlocked, ramdiskDir, mounted, destroyed,
                   nextRamdisk, extractCalls, extractOK, launches, osArgs,
                   server, shutdownResult, process>>
    /\ UNCHANGED nonUnlockVars

\* Lines 249-253: cmd.Wait()
LMWait ==
    /\ process = "running"
    /\ lmpc = "wait"
    /\ \/ /\ child' = "exited"
          /\ lmpc' = "clean"
       \/ /\ child' = "exitedWithError"
          /\ lmpc' = "fatalExit"
    /\ UNCHANGED <<reqs, handlerMutex, alreadyUnlocked, ramdiskDir, mounted, destroyed,
                   nextRamdisk, extractCalls, extractOK, launches, flagsNoExec, osArgs,
                   server, shutdownResult, childArgs, process>>
    /\ UNCHANGED nonUnlockVars

\* Lines 255-256: the clean path destroys the ramdisk and returns.
LMClean ==
    /\ process = "running"
    /\ lmpc = "clean"
    /\ mounted' = DestroyRamdisk(ramdiskDir)
    /\ destroyed' = destroyed \cup {ramdiskDir}
    /\ lmpc' = "returned"
    /\ UNCHANGED <<reqs, handlerMutex, alreadyUnlocked, ramdiskDir,
                   nextRamdisk, extractCalls, extractOK, launches, flagsNoExec, osArgs,
                   server, shutdownResult, child, childArgs, process>>
    /\ UNCHANGED nonUnlockVars

\* Line 258, mutated: fatalExit without DestroyRamdisk.
LMFatalExitKeepsRamdisk ==
    /\ process = "running"
    /\ lmpc = "fatalExit"
    /\ lmpc' = "abort"
    /\ UNCHANGED <<reqs, handlerMutex, alreadyUnlocked, ramdiskDir, mounted, destroyed,
                   nextRamdisk, extractCalls, extractOK, launches, flagsNoExec, osArgs,
                   server, shutdownResult, child, childArgs, process>>
    /\ UNCHANGED nonUnlockVars

\* Lines 257-258: fatalExit destroys the ramdisk.
LMFatalExit ==
    /\ process = "running"
    /\ lmpc = "fatalExit"
    /\ mounted' = DestroyRamdisk(ramdiskDir)
    /\ destroyed' = destroyed \cup {ramdiskDir}
    /\ lmpc' = "abort"
    /\ UNCHANGED <<reqs, handlerMutex, alreadyUnlocked, ramdiskDir,
                   nextRamdisk, extractCalls, extractOK, launches, flagsNoExec, osArgs,
                   server, shutdownResult, child, childArgs, process>>
    /\ UNCHANGED nonUnlockVars

\* Line 259: ws.logger.Abort, which is log.Fatal: the process exits.
LMAbort ==
    /\ process = "running"
    /\ lmpc = "abort"
    /\ process' = "aborted"
    /\ lmpc' = "aborted"
    /\ UNCHANGED <<reqs, handlerMutex, alreadyUnlocked, ramdiskDir, mounted, destroyed,
                   nextRamdisk, extractCalls, extractOK, launches, flagsNoExec, osArgs,
                   server, shutdownResult, child, childArgs>>
    /\ UNCHANGED nonUnlockVars

(***************************************************************************)
(* passwdserver: properties                                                *)
(***************************************************************************)
Succeeded == {r \in Requests : reqs[r].outcome = "success"}

\* C1: under any interleaving of requests, at most one unlock attempt
\* succeeds: Extract succeeds at most once, at most one handler commits the
\* unlock, and LaunchMainProgram is scheduled at most once.
UnlockAtMostOnce ==
    /\ extractOK <= 1
    /\ launches <= 1
    /\ Cardinality(Succeeded) <= 1
    /\ alreadyUnlocked <=> Succeeded # {}

\* Two POSTs with the right password were both accepted before the unlock and
\* both handlers have returned, one of them with the unlock.
UnlockRaceWitness ==
    \E r1, r2 \in Requests :
        /\ r1 # r2
        /\ reqs[r1].outcome = "success"
        /\ reqs[r2].pc = "done" /\ reqs[r2].path = URL
        /\ reqs[r2].method = "POST" /\ reqs[r2].password = "good"
        /\ ~reqs[r2].afterUnlock

\* C2: a POST attempt that created a ramdisk and then failed (temp file or
\* Extract) has destroyed that ramdisk when its handler returns.
FailedAttemptLeavesNoRamdisk ==
    \A r \in Requests :
        (/\ reqs[r].pc = "done"
         /\ reqs[r].madeRamdisk
         /\ reqs[r].outcome \in {"tempfile_err", "extract_err"})
        => reqs[r].ramdisk \notin mounted

\* C3: every end of LaunchMainProgram comes after DestroyRamdisk on the
\* ramdisk of the successful unlock; the fatal paths end with the process
\* aborted, the clean path returns after the child exited cleanly.
LaunchEndsAfterDestroy ==
    /\ lmpc \in {"returned", "aborted"} =>
         \A r \in Succeeded : reqs[r].ramdisk \in destroyed /\ reqs[r].ramdisk \notin mounted
    /\ lmpc = "returned" => process = "running" /\ child = "exited"
    /\ lmpc = "aborted" <=> process = "aborted"
    /\ lmpc = "aborted" => shutdownResult = "err" \/ child \in {"none", "exitedWithError"}

\* LaunchMainProgram ended on a fatal path, the child having exited with an
\* error, and the ramdisk of the unlock had been mounted and was destroyed.
LaunchFatalWitness ==
    /\ lmpc = "aborted"
    /\ child = "exitedWithError"
    /\ \E r \in Succeeded : reqs[r].madeRamdisk /\ reqs[r].ramdisk \in destroyed

ChildOnlyAfterShutdown ==
    /\ child # "none" => shutdownResult = "ok" /\ server = "closed"
    /\ shutdownResult = "err" => child = "none"
    /\ lmpc \in {"executable", "chdir", "command", "wait", "clean", "returned"}
         => shutdownResult = "ok"

\* The child is running.
ChildRunningWitness == child = "running" /\ shutdownResult = "ok"

\* C6: the child's arguments are os.Args[1:] without the arguments that start
\* with -pwdserver, in order, nothing else dropped and nothing added.
ChildArgsAreParentArgsMinusFlag ==
    child # "none" =>
        childArgs = SelectSeq(Tail(osArgs), LAMBDA s : ~HasPrefix(s, <<"-">> \o CLIFlag))

Symbol == 0..3
IVLength == 2
Key == 1

\* XOR of two symbols
Xor(a, b) == (((a % 2) + (b % 2)) % 2) + 2 * (((a \div 2) + (b \div 2)) % 2)

RECURSIVE SumSeq(_)
SumSeq(q) == IF q = <<>> THEN 0 ELSE Head(q) + SumSeq(Tail(q))

\* The keystream symbol at position i (from 0) under the key and the IV
KeyStream(iv, i) == (Key + SumSeq(iv) + 3 * Len(iv) + i) % 4

\* Encrypt(dst, src) and Decrypt(dst, src) of the stream made from iv, at
\* position pos: the XOR with the next Len(src) keystream symbols
Encrypt(iv, pos, src) == [i \in 1..Len(src) |-> Xor(src[i], KeyStream(iv, pos + i - 1))]
Decrypt(iv, pos, src) == [i \in 1..Len(src) |-> Xor(src[i], KeyStream(iv, pos + i - 1))]

\* The IVs InitEncryptionStream may draw
IVs == [1..IVLength -> {0, 3}]
\* The buffers a caller gives to Write
PlainBufs == SeqsUpTo({0, 1}, MaxPlain)

\* A connection as NewTCPCipherConnection makes it, on both ends
CipherIdle ==
    /\ encStream = FALSE
    /\ encIV = <<>>
    /\ encPos = 0
    /\ written = <<>>
    /\ writeFailed = FALSE
    /\ wire = <<>>
    /\ wireKind = <<>>
    /\ decStream = FALSE
    /\ decIV = <<>>
    /\ decPos = 0
    /\ connIV = <<>>
    /\ rpc = "idle"
    /\ rlen = 0
    /\ ivBuf = <<>>
    /\ rpos = 0
    /\ received = <<>>
    /\ readFailed = FALSE
    /\ shortRead = FALSE

Kinds(k, n) == [i \in 1..n |-> k]

\* Write, lines 224-227: the IV that goes in front of the data, empty unless
\* this call initialised the encryption stream with the IV `drawn`
WriteIV(drawn) == IF encStream THEN <<>> ELSE drawn

\* Write, lines 224-246, for the buffer buf when InitEncryptionStream would
\* draw the IV `drawn` and the underlying conn.Conn.Write takes n bytes;
\* kind tells what the buffer holds.
WriteEffect(buf, drawn, n, kind) ==
    LET iv == WriteIV(drawn)
        cipherData == iv \o Encrypt(drawn, encPos, buf)
    IN  /\ encStream' = TRUE
        /\ encIV' = drawn
        /\ encPos' = encPos + Len(buf)
        /\ written' = written \o buf
        /\ wire' = wire \o SubSeq(cipherData, 1, n)
        /\ wireKind' = wireKind \o SubSeq(Kinds("iv", Len(iv)) \o Kinds(kind, Len(buf)), 1, n)
        /\ writeFailed' = (writeFailed \/ n < Len(cipherData))

\* Write, lines 221-222 and 244-246: the count Write returns when the
\* underlying conn.Conn.Write returned n. headerLen is len(buf) - bufSize with
\* bufSize = len(buf).
WriteReturn(buf, n) ==
    LET bufSize == Len(buf)
        headerLen == Len(buf) - bufSize
    IN  IF n >= headerLen THEN n - headerLen ELSE n

\* No call of Write yet
ReturnIdle == lastWrite = [len |-> -1, n |-> -1, failed |-> FALSE]

\* TCPCipherConnection.Write, lines 219-249. The call holds conn.mutex from
\* its first line to its last, so it is one step. The underlying
\* conn.Conn.Write takes n of the bytes; it returns an error exactly when it
\* took fewer than all. The callers write at most MaxPlain bytes in all.
Write ==
    /\ \E buf \in PlainBufs, drawn \in IF encStream THEN {encIV} ELSE IVs :
         /\ Len(written) + Len(buf) <= MaxPlain
         /\ \E n \in 0..(Len(WriteIV(drawn)) + Len(buf)) : WriteEffect(buf, drawn, n, "ct")
    /\ UNCHANGED <<decStream, decIV, decPos, connIV, rpc, rlen, ivBuf, rpos, received,
                   readFailed, shortRead>>
    /\ UNCHANGED nonCipherVars

\* The same call with what it returned put on record: len(buf), the count n
\* and whether err was not nil
WriteReturning ==
    /\ \E buf \in PlainBufs, drawn \in IF encStream THEN {encIV} ELSE IVs :
         /\ Len(written) + Len(buf) <= MaxPlain
         /\ \E n \in 0..(Len(WriteIV(drawn)) + Len(buf)) :
               /\ WriteEffect(buf, drawn, n, "ct")
               /\ lastWrite' = [len |-> Len(buf), n |-> WriteReturn(buf, n),
                                failed |-> n < Len(WriteIV(drawn)) + Len(buf)]
    /\ UNCHANGED <<decStream, decIV, decPos, connIV, rpc, rlen, ivBuf, rpos, received,
                   readFailed, shortRead>>
    /\ UNCHANGED <<unlockVars, proxyVars, pipeVars, dnsVars, nonReturnVars>>

\* The bytes on the wire no underlying read has taken yet
Available == Len(wire) - rpos

\* Read, line 193: a caller asks for up to len(b) bytes.
ReadCall ==
    /\ rpc = "idle"
    /\ \E size \in 1..MaxReadLen : rlen' = size
    /\ rpc' = IF decStream THEN "data" ELSE "iv"
    /\ ivBuf' = <<>>
    /\ UNCHANGED <<encStream, encIV, encPos, written, writeFailed, wire, wireKind,
                   decStream, decIV, decPos, connIV, rpos, received, readFailed, shortRead>>
    /\ UNCHANGED nonCipherVars

\* Read, lines 194-203: io.ReadFull(conn.Conn, iv) reads until the IV is
\* complete, each underlying read giving at least one byte; then the
\* decryption stream is made from it. An error of an underlying read ends
\* the call with the bytes read so far dropped.
ReadIV ==
    /\ rpc = "iv"
    /\ \/ \E n \in 1..(IVLength - Len(ivBuf)) :
            /\ n <= Available
            /\ rpos' = rpos + n
            /\ shortRead' = (shortRead \/ n < IVLength - Len(ivBuf))
            /\ LET iv == ivBuf \o SubSeq(wire, rpos + 1, rpos + n)
               IN  IF Len(iv) = IVLength
                   THEN /\ decStream' = TRUE
                        /\ decIV' = iv
                        /\ decPos' = 0
                        /\ connIV' = IF connIV = <<>> THEN iv ELSE connIV
                        /\ ivBuf' = <<>>
                        /\ rpc' = "data"
                   ELSE /\ ivBuf' = iv
                        /\ UNCHANGED <<decStream, decIV, decPos, connIV, rpc>>
            /\ UNCHANGED readFailed
       \/ /\ readFailed' = TRUE
          /\ rpc' = "idle"
          /\ ivBuf' = <<>>
          /\ UNCHANGED <<decStream, decIV, decPos, connIV, rpos, shortRead>>
    /\ UNCHANGED <<encStream, encIV, encPos, written, writeFailed, wire, wireKind,
                   rlen, received>>
    /\ UNCHANGED nonCipherVars

\* Lines 212-215, mutated: the keystream moves by len(b), not by n.
KeystreamUsedWholeBuffer(n) == rlen

\* Read, lines 212-215: how far Decrypt(b[0:n], cipherData[0:n]) moves the keystream
KeystreamUsed(n) == n

\* Read, lines 205-216: one underlying read of up to len(b) bytes; the n
\* bytes it gave are decrypted into b. An error comes with no bytes.
ReadData ==
    /\ rpc = "data"
    /\ \/ \E n \in 1..rlen :
            /\ n <= Available
            /\ rpos' = rpos + n
            /\ received' = received \o Decrypt(decIV, decPos, SubSeq(wire, rpos + 1, rpos + n))
            /\ decPos' = decPos + KeystreamUsed(n)
            /\ shortRead' = (shortRead \/ n < rlen)
            /\ UNCHANGED readFailed
       \/ /\ readFailed' = TRUE
          /\ UNCHANGED <<rpos, received, decPos, shortRead>>
    /\ rpc' = "idle"
    /\ UNCHANGED <<encStream, encIV, encPos, written, writeFailed, wire, wireKind,
                   decStream, decIV, connIV, rlen, ivBuf>>
    /\ UNCHANGED nonCipherVars

(***************************************************************************)
(* sockd cipher: properties                                                *)
(***************************************************************************)
\* C8: whatever the underlying writes did, the wire starts with one complete
\* IV, the IV is there once, and no ciphertext is on the wire before it or
\* without it.
CiphertextOnlyAfterIV ==
    \A i \in 1..Len(wireKind) :
        IF i <= IVLength
        THEN wireKind[i] = "iv" /\ wire[i] = encIV[i]
        ELSE wireKind[i] = "ct"

\* C9: with every underlying write and read successful, what Read has given
\* is what Write was given, up to the bytes still on the wire; once the wire
\* is read to its end the two are equal; and the wire starts with the IV
\* that InitEncryptionStream drew.
RoundTrip ==
    (~writeFailed /\ ~readFailed) =>
        /\ Len(received) <= Len(written)
        /\ received = SubSeq(written, 1, Len(received))
        /\ (rpc = "idle" /\ decStream /\ rpos = Len(wire)) => received = written
        /\ wire # <<>> => SubSeq(wire, 1, IVLength) = encIV
        /\ Len(wire) = (IF encStream THEN IVLength ELSE 0) + Len(written)
        /\ decStream => decIV = encIV /\ connIV = encIV

\* MaxPlain bytes, not all the same, were written and read back in full, by
\* reads of which one was short of what it asked for.
RoundTripWitness ==
    /\ ~writeFailed /\ ~readFailed /\ shortRead
    /\ Len(written) = MaxPlain
    /\ rpos = Len(wire) /\ rpc = "idle"
    /\ received = written
    /\ {written[i] : i \in 1..Len(written)} = {0, 1}

(***************************************************************************)
(* Text and addresses. A text is a sequence of byte values, an IP address  *)
(* a sequence of 4 or 16 byte values, <<>> for nil.                        *)
(***************************************************************************)
\* strconv.Itoa for n >= 0
RECURSIVE Itoa(_)
Itoa(n) == IF n < 10 THEN <<48 + n>> ELSE Itoa(n \div 10) \o <<48 + (n % 10)>>

HexDigit(d) == IF d < 10 THEN 48 + d ELSE 87 + d
\* Lower-case hexadecimal without leading zeros
RECURSIVE Hex(_)
Hex(n) == IF n < 16 THEN <<HexDigit(n)>> ELSE Hex(n \div 16) \o <<HexDigit(n % 16)>>

\* net.IP.To4: the four bytes of an IPv4 address, <<>> when ip is none
To4(ip) ==
    IF Len(ip) = 4 THEN ip
    ELSE IF /\ Len(ip) = 16
            /\ \A i \in 1..10 : ip[i] = 0
            /\ ip[11] = 255 /\ ip[12] = 255
         THEN SubSeq(ip, 13, 16)
         ELSE <<>>

\* The 16-byte form net.ParseIP and net.IPv4 give an IPv4 address
V4InV6(a) == <<0, 0, 0, 0, 0, 0, 0, 0, 0, 0, 255, 255>> \o a

Dotted(a) == Itoa(a[1]) \o <<46>> \o Itoa(a[2]) \o <<46>> \o Itoa(a[3]) \o <<46>> \o Itoa(a[4])

\* The g-th 16-bit group of a 16-byte address
Group(ip, g) == ip[2 * g - 1] * 256 + ip[2 * g]

\* How many groups from the g-th on are zero in a row
RECURSIVE ZeroRun(_, _)
ZeroRun(ip, g) == IF g > 8 \/ Group(ip, g) # 0 THEN 0 ELSE 1 + ZeroRun(ip, g + 1)

\* The groups from the g-th on as text; e0 is where the "::" goes (0: nowhere)
\* and run how many groups it stands for.
RECURSIVE GroupsText(_, _, _, _, _)
GroupsText(ip, g, e0, run, afterEllipsis) ==
    IF g > 8 THEN <<>>
    ELSE IF g = e0 THEN <<58, 58>> \o GroupsText(ip, g + run, e0, run, TRUE)
    ELSE (IF g > 1 /\ ~afterEllipsis THEN <<58>> ELSE <<>>)
         \o Hex(Group(ip, g)) \o GroupsText(ip, g + 1, e0, run, FALSE)

\* net.IP.String: dotted decimal for an IPv4 address in either form, else
\* the groups in hexadecimal with the first longest run of two or more zero
\* groups written "::"
IPString(ip) ==
    IF Len(ip) = 0 THEN <<60, 110, 105, 108, 62>>
    ELSE IF To4(ip) # <<>> THEN Dotted(To4(ip))
    ELSE LET longest == CHOOSE m \in 0..8 :
                            /\ \E g \in 1..8 : ZeroRun(ip, g) = m
                            /\ \A g \in 1..8 : ZeroRun(ip, g) <= m
             e0 == IF longest < 2 THEN 0
                   ELSE CHOOSE g \in 1..8 :
                            /\ ZeroRun(ip, g) = longest
                            /\ \A h \in 1..(g - 1) : ZeroRun(ip, h) < longest
         IN  GroupsText(ip, 1, e0, longest, FALSE)

\* strings.IndexByte, from 0; -1 when c is not in s
IndexByte(s, c) ==
    IF c \in Range(s) THEN (CHOOSE i \in 1..Len(s) : s[i] = c /\ \A j \in 1..(i - 1) : s[j] # c) - 1
    ELSE -1

\* The fields of s between the separators c
RECURSIVE Split(_, _)
Split(s, c) ==
    IF IndexByte(s, c) < 0 THEN <<s>>
    ELSE <<SubSeq(s, 1, IndexByte(s, c))>> \o Split(SubSeq(s, IndexByte(s, c) + 2, Len(s)), c)

RECURSIVE DecimalValue(_)
DecimalValue(f) == IF f = <<>> THEN 0 ELSE DecimalValue(SubSeq(f, 1, Len(f) - 1)) * 10 + (f[Len(f)] - 48)

\* A field of a dotted-decimal address: one to three digits, no leading zero,
\* at most 255
IsV4Field(f) ==
    /\ Len(f) \in 1..3
    /\ \A i \in 1..Len(f) : f[i] \in 48..57
    /\ Len(f) > 1 => f[1] # 48
    /\ DecimalValue(f) <= 255

HexValue(c) == IF c \in 48..57 THEN c - 48 ELSE IF c \in 97..102 THEN c - 87 ELSE c - 55

RECURSIVE GroupValue(_)
GroupValue(f) == IF f = <<>> THEN 0 ELSE GroupValue(SubSeq(f, 1, Len(f) - 1)) * 16 + HexValue(f[Len(f)])

\* A group of an IPv6 text: one to four hexadecimal digits
IsV6Group(f) ==
    /\ Len(f) \in 1..4
    /\ \A i \in 1..Len(f) : f[i] \in (48..57) \cup (97..102) \cup (65..70)

GroupBytes(fs) ==
    [i \in 1..(2 * Len(fs)) |->
        IF i % 2 = 1 THEN GroupValue(fs[(i + 1) \div 2]) \div 256
        ELSE GroupValue(fs[i \div 2]) % 256]

\* Where the first "::" of s starts, from 1; 0 when there is none
EllipsisAt(s) ==
    IF \E i \in 1..(Len(s) - 1) : s[i] = 58 /\ s[i + 1] = 58
    THEN CHOOSE i \in 1..(Len(s) - 1) :
            /\ s[i] = 58 /\ s[i + 1] = 58
            /\ \A j \in 1..(i - 1) : ~(s[j] = 58 /\ s[j + 1] = 58)
    ELSE 0

\* net.ParseIP for the texts met here: a dotted-decimal IPv4 address, or an
\* IPv6 address of hexadecimal groups with at most one "::" (no embedded
\* IPv4 tail); <<>> (nil) for anything else. The result has 16 bytes.
ParseIP(s) ==
    IF 46 \in Range(s) /\ 58 \notin Range(s)
    THEN LET fs == Split(s, 46)
         IN  IF Len(fs) = 4 /\ \A i \in 1..4 : IsV4Field(fs[i])
             THEN V4InV6([i \in 1..4 |-> DecimalValue(fs[i])])
             ELSE <<>>
    ELSE IF 58 \in Range(s) /\ 46 \notin Range(s)
    THEN IF EllipsisAt(s) = 0
         THEN LET fs == Split(s, 58)
              IN  IF Len(fs) = 8 /\ \A i \in 1..8 : IsV6Group(fs[i])
                  THEN GroupBytes(fs)
                  ELSE <<>>
         ELSE LET left == SubSeq(s, 1, EllipsisAt(s) - 1)
                  right == SubSeq(s, EllipsisAt(s) + 2, Len(s))
                  lfs == IF left = <<>> THEN <<>> ELSE Split(left, 58)
                  rfs == IF right = <<>> THEN <<>> ELSE Split(right, 58)
              IN  IF /\ \A i \in 1..Len(lfs) : IsV6Group(lfs[i])
                     /\ \A i \in 1..Len(rfs) : IsV6Group(rfs[i])
                     /\ Len(lfs) + Len(rfs) <= 7
                  THEN GroupBytes(lfs)
                       \o [i \in 1..(16 - 2 * (Len(lfs) + Len(rfs))) |-> 0]
                       \o GroupBytes(rfs)
                  ELSE <<>>
    ELSE <<>>

\* net.JoinHostPort: the host in brackets when it holds a colon or a percent sign
JoinHostPort(host, port) ==
    IF 58 \in Range(host) \/ 37 \in Range(host)
    THEN <<91>> \o host \o <<93, 58>> \o port
    ELSE host \o <<58>> \o port

ToLowerKeepsCase(s) == s

\* strings.ToLower on ASCII text
ToLower(s) == [i \in 1..Len(s) |-> IF s[i] \in 65..90 THEN s[i] + 32 ELSE s[i]]

IsSpace(c) == c \in {9, 10, 11, 12, 13, 32}
\* strings.TrimSpace on ASCII text
RECURSIVE TrimSpace(_)
TrimSpace(s) ==
    IF s = <<>> THEN s
    ELSE IF IsSpace(s[1]) THEN TrimSpace(Tail(s))
    ELSE IF IsSpace(s[Len(s)]) THEN TrimSpace(SubSeq(s, 1, Len(s) - 1))
    ELSE s

(***************************************************************************)
(* dnsd: the blacklist                                                     *)
(***************************************************************************)
StrippedCandidatesOnce(name) ==
    LET index == IndexByte(name, 46)
    IN  IF index < 1 \/ index = Len(name) - 1 THEN {}
        ELSE LET rest == SubSeq(name, index + 2, Len(name))
             IN  IF Len(rest) < 4 THEN {} ELSE {rest}

\* IsInBlacklist, the loop: the candidates after the name itself. The
\* leftmost label is stripped while the first dot is neither at the start
\* nor at the end; what is left is a candidate when it has 4 characters or more.
RECURSIVE StrippedCandidates(_)
StrippedCandidates(name) ==
    LET index == IndexByte(name, 46)
    IN  IF index < 1 \/ index = Len(name) - 1 THEN {}
        ELSE LET rest == SubSeq(name, index + 2, Len(name))
             IN  (IF Len(rest) < 4 THEN {} ELSE {rest}) \cup StrippedCandidates(rest)

\* dnsd.Daemon.IsInBlacklist
IsInBlacklist(nameOrIP) ==
    IF Len(nameOrIP) > 255 THEN TRUE
    ELSE LET name == ToLower(TrimSpace(nameOrIP))
         IN  \E candidate \in {name} \cup StrippedCandidates(name) : candidate \in blackList

(***************************************************************************)
(* sockd: the reserved addresses. IsReservedAddr is not part of tcp.go; it *)
(* is the set the design names: private networks, loopback, multicast,     *)
(* link-local.                                                             *)
(***************************************************************************)
IsReservedAddr(ip) ==
    LET a == To4(ip)
    IN  IF a # <<>>
        THEN \/ a[1] = 10
             \/ a[1] = 172 /\ a[2] \in 16..31
             \/ a[1] = 192 /\ a[2] = 168
             \/ a[1] = 127
             \/ a[1] \in 224..239
             \/ a[1] = 169 /\ a[2] = 254
        ELSE /\ Len(ip) = 16
             /\ \/ ip = [i \in 1..16 |-> IF i = 16 THEN 1 ELSE 0]
                \/ ip[1] = 255
                \/ ip[1] = 254 /\ ip[2] \in 128..191
                \/ ip[1] \in {252, 253}

(***************************************************************************)
(* sockd: the request at the head of the decrypted client stream           *)
(***************************************************************************)
AddressTypeMask == 15
AddressTypeIndex == 0
AddressTypeIPv4 == 1
AddressTypeDM == 3
AddressTypeIPv6 == 4
IPPacketIndex == 1
IPv4PacketLength == 6
IPv6PacketLength == 18
DMAddrIndex == 2
DMAddrLengthIndex == 1
DMAddrHeaderLength == 2
IPv4len == 4
IPv6len == 16

\* Go's buf[lo:hi] when buf is filled from the head of the stream
Slice(stream, lo, hi) == SubSeq(stream, lo + 1, hi)

\* io.ReadFull into buf[lo:hi] succeeds when the stream holds that many bytes
ReadFull(stream, hi) == Len(stream) >= hi

\* binary.BigEndian.Uint16
Uint16(b) == b[1] * 256 + b[2]

ContainsNUL(s) == 0 \in Range(s)

\* What ParseRequest returns
Parsed(err, destIP, destNoPort, destWithPort) ==
    [err |-> err, destIP |-> destIP, destNoPort |-> destNoPort, destWithPort |-> destWithPort]

ParseFailed == Parsed(TRUE, <<>>, <<>>, <<>>)
\* The zero values, before ParseRequest has run
NotParsed == Parsed(FALSE, <<>>, <<>>, <<>>)

\* ParseRequest once the request bytes buf[reqStart:reqEnd] are known to be there
ParseDestination(stream, maskedType, reqEnd) ==
    LET port == Uint16(Slice(stream, reqEnd - 2, reqEnd))
        v4 == Slice(stream, IPPacketIndex, IPPacketIndex + IPv4len)
        v6 == Slice(stream, IPPacketIndex, IPPacketIndex + IPv6len)
        dest == Slice(stream, DMAddrIndex, DMAddrIndex + stream[DMAddrLengthIndex + 1])
        destIP == IF maskedType = AddressTypeIPv4 THEN v4
                  ELSE IF maskedType = AddressTypeIPv6 THEN v6
                  ELSE ParseIP(dest)
        destNoPort == IF maskedType = AddressTypeDM THEN dest ELSE IPString(destIP)
        destWithPort == JoinHostPort(destNoPort, Itoa(port))
    IN  IF port < 1 THEN ParseFailed
        ELSE Parsed(ContainsNUL(destNoPort) \/ ContainsNUL(destWithPort),
                    destIP, destNoPort, destWithPort)

\* The address type as it is
UnmaskedType(addrType) == addrType

\* ParseRequest, line 264: addrType & AddressTypeMask
MaskedType(addrType) == addrType % (AddressTypeMask + 1)

\* TCPCipherConnection.ParseRequest; deadlineOK tells whether SetReadDeadline worked
ParseRequest(stream, deadlineOK) ==
    IF ~deadlineOK THEN ParseFailed
    ELSE IF ~ReadFull(stream, AddressTypeIndex + 1) THEN ParseFailed
    ELSE LET maskedType == MaskedType(stream[AddressTypeIndex + 1])
         IN  IF maskedType = AddressTypeIPv4
             THEN IF ReadFull(stream, IPPacketIndex + IPv4PacketLength)
                  THEN ParseDestination(stream, maskedType, IPPacketIndex + IPv4PacketLength)
                  ELSE ParseFailed
             ELSE IF maskedType = AddressTypeIPv6
             THEN IF ReadFull(stream, IPPacketIndex + IPv6PacketLength)
                  THEN ParseDestination(stream, maskedType, IPPacketIndex + IPv6PacketLength)
                  ELSE ParseFailed
             ELSE IF maskedType = AddressTypeDM
             THEN IF ~ReadFull(stream, DMAddrLengthIndex + 1) THEN ParseFailed
                  ELSE LET reqEnd == DMAddrIndex + stream[DMAddrLengthIndex + 1] + DMAddrHeaderLength
                       IN  IF ReadFull(stream, reqEnd)
                           THEN ParseDestination(stream, maskedType, reqEnd)
                           ELSE ParseFailed
             ELSE ParseFailed

\* ParseRequest, lines 258-283: how many bytes of the stream its calls of
\* io.ReadFull have asked for, from the first byte on
BytesAsked(stream, deadlineOK) ==
    IF ~deadlineOK THEN 0
    ELSE IF ~ReadFull(stream, AddressTypeIndex + 1) THEN AddressTypeIndex + 1
    ELSE LET maskedType == MaskedType(stream[AddressTypeIndex + 1])
         IN  IF maskedType = AddressTypeIPv4 THEN IPPacketIndex + IPv4PacketLength
             ELSE IF maskedType = AddressTypeIPv6 THEN IPPacketIndex + IPv6PacketLength
             ELSE IF maskedType = AddressTypeDM
             THEN IF ~ReadFull(stream, DMAddrLengthIndex + 1) THEN DMAddrLengthIndex + 1
                  ELSE DMAddrIndex + stream[DMAddrLengthIndex + 1] + DMAddrHeaderLength
             ELSE AddressTypeIndex + 1

(***************************************************************************)
(* sockd: HandleTCPConnection                                              *)
(***************************************************************************)
\* The texts of the blacklist: "evil.com" and "93.184.216.34"
BlockedName == <<101, 118, 105, 108, 46, 99, 111, 109>>
BlockedIP == <<57, 51, 46, 49, 56, 52, 46, 50, 49, 54, 46, 51, 52>>
BlackLists == {{}, {BlockedName, BlockedIP}}

\* A connection just accepted, with the decrypted bytes the client will send
ProxyIdle(stream, bl) ==
    /\ pStream = stream
    /\ ppc = "accepted"
    /\ parsed = NotParsed
    /\ clientConn = "open"
    /\ destConn = "none"
    /\ dials = <<>>
    /\ padding = "none"
    /\ blackList = bl

NeverRefusedAsReserved(destIP) == FALSE

\* The test that refuses a reserved destination; a nil destIP is <<>>
RefusedAsReserved(destIP) == destIP # <<>> /\ IsReservedAddr(destIP)

RefuseByPolicyWithPadding == [pc |-> "writeRand", conn |-> "open"]

\* Lines 343-352: a refusal for a policy reason closes the connection at
\* once and returns
RefuseByPolicy == [pc |-> "done", conn |-> "closed"]

\* HandleTCPConnection from the parse to the decision: pad and close, close, or dial
HandleRequest ==
    /\ ppc = "accepted"
    /\ \E deadlineOK \in BOOLEAN :
        LET p == ParseRequest(pStream, deadlineOK)
        IN  /\ parsed' = p
            /\ IF p.err \/ ContainsNUL(p.destWithPort)
               THEN ppc' = "writeRand" /\ clientConn' = clientConn
               ELSE IF RefusedAsReserved(p.destIP) \/ IsInBlacklist(p.destNoPort)
               THEN ppc' = RefuseByPolicy.pc /\ clientConn' = RefuseByPolicy.conn
               ELSE ppc' = "dial" /\ clientConn' = clientConn
    /\ UNCHANGED <<pStream, destConn, dials, padding, blackList>>
    /\ UNCHANGED nonProxyVars

CloseOnlyAfterWrite(outcome) == IF outcome = "written" THEN "closed" ELSE "open"

\* WriteRandAndClose, lines 311-313: the deferred Close runs on every return
CloseDeferred(outcome) == "closed"

\* WriteRandAndClose: the padding is written unless the random source, the
\* deadline or the write fails; the connection is closed in every case
WriteRandAndClose ==
    /\ ppc = "writeRand"
    /\ \E outcome \in {"none", "written", "failed"} :
         /\ padding' = outcome
         /\ clientConn' = CloseDeferred(outcome)
    /\ ppc' = "done"
    /\ UNCHANGED <<pStream, parsed, destConn, dials, blackList>>
    /\ UNCHANGED nonProxyVars

\* net.DialTimeout and what follows it
Dial ==
    /\ ppc = "dial"
    /\ dials' = Append(dials, parsed.destWithPort)
    /\ \E ok \in BOOLEAN :
        IF ok
        THEN destConn' = "open" /\ ppc' = "piping" /\ clientConn' = clientConn
        ELSE destConn' = destConn /\ ppc' = "done" /\ clientConn' = "closed"
    /\ UNCHANGED <<pStream, parsed, padding, blackList>>
    /\ UNCHANGED nonProxyVars

(***************************************************************************)
(* The requests clients send                                               *)
(***************************************************************************)
PortBytes(port) == <<port \div 256, port % 256>>
IPv4Request(type, a, port) == <<type>> \o a \o PortBytes(port)
IPv6Request(type, a, port) == <<type>> \o a \o PortBytes(port)
DMRequest(type, name, port) == <<type, Len(name)>> \o name \o PortBytes(port)

Ports == {0, 22, 80}
V4Addresses == {<<10, 0, 0, 1>>, <<127, 0, 0, 1>>, <<0, 0, 0, 0>>, <<8, 8, 8, 8>>,
                <<93, 184, 216, 34>>, <<192, 168, 1, 1>>}
Loopback6 == [i \in 1..16 |-> IF i = 16 THEN 1 ELSE 0]
V6Addresses == {Loopback6,
                <<32, 1, 13, 184, 0, 0, 0, 0, 0, 0, 0, 0, 0, 0, 0, 1>>,
                V4InV6(<<10, 0, 0, 1>>),
                <<254, 128, 0, 0, 0, 0, 0, 0, 0, 0, 0, 0, 0, 0, 0, 1>>}
\* "localhost"
Localhost == <<108, 111, 99, 97, 108, 104, 111, 115, 116>>
\* "evil.com", "a.evil.com", "EVIL.com", "ok.org", "10.0.0.1", "127.0.0.1",
\* "8.8.8.8", "::1", "a" NUL "b", "", "localhost"
Names == {BlockedName,
          <<97, 46, 101, 118, 105, 108, 46, 99, 111, 109>>,
          <<69, 86, 73, 76, 46, 99, 111, 109>>,
          <<111, 107, 46, 111, 114, 103>>,
          <<49, 48, 46, 48, 46, 48, 46, 49>>,
          <<49, 50, 55, 46, 48, 46, 48, 46, 49>>,
          <<56, 46, 56, 46, 56, 46, 56>>,
          <<58, 58, 49>>,
          <<97, 0, 98>>,
          <<>>,
          Localhost}
\* The type bytes: the three encodings, two of them with a high nibble set
\* too, and two unknown ones
V4Types == {1, 17}
DMTypes == {3, 243}
V6Types == {4}
UnknownTypes == {0, 5}

ClientRequests ==
    {IPv4Request(t, a, p) : t \in V4Types, a \in V4Addresses, p \in Ports}
    \cup {DMRequest(t, n, p) : t \in DMTypes, n \in Names, p \in Ports}
    \cup {IPv6Request(t, a, p) : t \in V6Types, a \in V6Addresses, p \in Ports}
    \cup {IPv4Request(t, a, p) : t \in UnknownTypes, a \in {<<8, 8, 8, 8>>}, p \in {80}}

\* The client may stop sending anywhere, or go on with its payload
ClientStreams ==
    UNION {Prefixes(r) : r \in ClientRequests} \cup {r \o <<71>> : r \in ClientRequests}

(***************************************************************************)
(* Properties of the proxy                                                 *)
(***************************************************************************)
Request10 == IPv4Request(1, <<10, 0, 0, 1>>, 80)
Request127 == IPv4Request(1, <<127, 0, 0, 1>>, 22)
Request0 == IPv4Request(1, <<0, 0, 0, 0>>, 0)

\* The request at the head of the client's stream, read off the bytes:
\* complete, of a known type, with a port, to a host whose text has no NUL
RequestType == pStream[1] % 16
RequestLength ==
    IF RequestType = 1 THEN 7
    ELSE IF RequestType = 4 THEN 19
    ELSE IF Len(pStream) >= 2 THEN 4 + pStream[2] ELSE 4
RequestHost ==
    IF RequestType = 1 THEN Dotted(SubSeq(pStream, 2, 5))
    ELSE IF RequestType = 4 THEN IPString(SubSeq(pStream, 2, 17))
    ELSE SubSeq(pStream, 3, 2 + pStream[2])
RequestIP ==
    IF RequestType = 1 THEN SubSeq(pStream, 2, 5)
    ELSE IF RequestType = 4 THEN SubSeq(pStream, 2, 17)
    ELSE ParseIP(RequestHost)
RequestPort == pStream[RequestLength - 1] * 256 + pStream[RequestLength]
WellFormedRequest ==
    /\ Len(pStream) >= 1
    /\ RequestType \in {1, 3, 4}
    /\ Len(pStream) >= RequestLength
    /\ RequestPort >= 1
    /\ 0 \notin Range(RequestHost)

\* C10: the destination is dialled only for a well-formed request (known
\* address type, port >= 1, no NUL byte) whose IP literal is not a reserved
\* address and whose destination is not in the blacklist, and then only once
\* and to the requested host and port; requests for 10.0.0.1:80,
\* 127.0.0.1:22 and 0.0.0.0:0 are never dialled and the handler ends with
\* the client connection closed.
DialOnlyWhenAllowed ==
    /\ dials # <<>> =>
        /\ WellFormedRequest
        /\ RequestIP = <<>> \/ ~IsReservedAddr(RequestIP)
        /\ ~IsInBlacklist(RequestHost)
        /\ dials = <<JoinHostPort(RequestHost, Itoa(RequestPort))>>
    /\ (\E r \in {Request10, Request127, Request0} : HasPrefix(pStream, r)) =>
        /\ dials = <<>>
        /\ destConn = "none"
        /\ ppc \in {"accepted", "writeRand", "done"}
        /\ ppc = "done" => clientConn = "closed"

\* C10 witness: the request for 10.0.0.1:80 has been handled, the client
\* connection is closed and nothing was dialled
ReservedRefusedWitness ==
    /\ pStream = Request10
    /\ ppc = "done"
    /\ clientConn = "closed"
    /\ padding = "none"
    /\ dials = <<>>

\* The request was refused for a policy reason: it is well formed and was
\* read, and its address is reserved or its host is in the blacklist
PolicyRefusal ==
    /\ WellFormedRequest
    /\ ppc # "accepted"
    /\ ~parsed.err
    /\ \/ RequestIP # <<>> /\ IsReservedAddr(RequestIP)
       \/ IsInBlacklist(RequestHost)

\* C11: a request refused for a policy reason (reserved address, or host in
\* the blacklist) ends at once with the client connection closed; no random
\* padding is attempted or written, and nothing is dialled.
PolicyRefusalClosesWithoutPadding ==
    PolicyRefusal =>
        /\ ppc = "done"
        /\ clientConn = "closed"
        /\ padding = "none"
        /\ dials = <<>>

\* C11 witness: a request for the blacklisted name evil.com has been refused
BlacklistedRefusedWitness ==
    /\ pStream = DMRequest(3, BlockedName, 80)
    /\ blackList = {BlockedName, BlockedIP}
    /\ PolicyRefusal
    /\ clientConn = "closed"
    /\ padding = "none"

\* C12: a request malformed at protocol level (unknown address type, port
\* 0, NUL in the destination, short read) is never dialled; its connection
\* is closed only by WriteRandAndClose, that is after the padding was
\* attempted, whatever became of the padding; and it is closed in the end.
MalformedPaddedThenClosed ==
    /\ [](~WellFormedRequest =>
            /\ ppc \in {"accepted", "writeRand", "done"}
            /\ dials = <<>>
            /\ ppc = "done" <=> clientConn = "closed"
            /\ ppc = "accepted" => padding = "none")
    /\ [][~WellFormedRequest /\ clientConn' # clientConn
            => ppc = "writeRand" /\ clientConn' = "closed"]_vars
    /\ (~WellFormedRequest ~> clientConn = "closed")

\* C12 witness: a request with an unknown address type was closed after the
\* write of the padding failed
MalformedClosedWitness ==
    /\ pStream = IPv4Request(5, <<8, 8, 8, 8>>, 80)
    /\ ppc = "done"
    /\ padding = "failed"
    /\ clientConn = "closed"

\* The address net.DialTimeout (line 353) connects to for a host: the
\* address an IP literal spells, else what the resolver gives for the name;
\* "localhost" is 127.0.0.1, every other name of the model is at 8.8.8.8
DialAddress(host) ==
    IF ParseIP(host) # <<>> THEN ParseIP(host)
    ELSE IF host = Localhost THEN <<127, 0, 0, 1>>
    ELSE <<8, 8, 8, 8>>

\* C31: the proxy never opens a connection to a destination whose IP address
\* is reserved (private, loopback, multicast, link-local), whichever of the
\* three encodings the request used: IPv4, IPv6 or a domain name that
\* resolves to such an address.
NeverDialsReserved ==
    dials # <<>> => ~IsReservedAddr(DialAddress(parsed.destNoPort))

(***************************************************************************)
(* sockd: the two pipes of a proxied session                               *)
(* "up" is PipeTCPConnection(conn, dest, true), from the client through    *)
(* the cipher to the destination; "down" is PipeTCPConnection(dest, conn,  *)
(* false). A read or a write of an open connection fails with no byte      *)
(* (a timeout), fails after some bytes, or succeeds; on a closed           *)
(* connection already SetReadDeadline and SetWriteDeadline fail.           *)
(***************************************************************************)
PipeNames == {"up", "down"}
FromConn(p) == IF p = "up" THEN "client" ELSE "dest"
ToConn(p) == IF p = "up" THEN "dest" ELSE "client"
DoWriteRand(p) == p = "up"
IsClosed(c) == IF c = "client" THEN clientConn = "closed" ELSE destConn = "closed"

\* conn.Close() on each of the connections cs
CloseConns(cs) ==
    /\ clientConn' = IF "client" \in cs THEN "closed" ELSE clientConn
    /\ destConn' = IF "dest" \in cs THEN "closed" ELSE destConn

\* No pipe is running
PipeIdle ==
    /\ lockDown = FALSE
    /\ pipes = [p \in PipeNames |-> [pc |-> "none", attempts |-> 0, last |-> "none",
                                     err |-> FALSE, buf |-> <<>>, exit |-> "none", i |-> 0]]
    /\ upWire = <<>>
    /\ destIn = <<>>
    /\ destOut = <<>>
    /\ destPos = 0
    /\ faults = 0

\* The IV of the client's stream, and the request it sent: 8.8.8.8:80
ClientIV == <<3, 0>>
RelayRequest == IPv4Request(1, <<8, 8, 8, 8>>, 80)
\* What the client and the destination send once connected: the first
\* bytes of these
ClientPayload == <<1, 0, 1, 1, 0, 0>>
DestPayload == <<0, 1, 0, 0, 1, 1>>
\* The client takes the IV and this many bytes more; then the writes to it
\* time out
MaxWire == IVLength + MaxRelay
\* The IV InitEncryptionStream draws in this session
ProxyIVs == {<<0, 3>>}

\* The session as HandleTCPConnection starts its pipes, lines 359-362: the
\* request was read through the cipher, the destination is connected.
PipeStart(up, down) ==
    /\ pStream = RelayRequest \o SubSeq(ClientPayload, 1, up)
    /\ ppc = "piping"
    /\ parsed = ParseRequest(RelayRequest, TRUE)
    /\ clientConn = "open"
    /\ destConn = "open"
    /\ dials = <<ParseRequest(RelayRequest, TRUE).destWithPort>>
    /\ padding = "none"
    /\ blackList = {}
    /\ encStream = FALSE /\ encIV = <<>> /\ encPos = 0 /\ written = <<>>
    /\ writeFailed = FALSE /\ wire = <<>> /\ wireKind = <<>>
    /\ decStream = TRUE /\ decIV = ClientIV /\ connIV = ClientIV
    /\ decPos = Len(RelayRequest)
    /\ rpc = "idle" /\ rlen = 0 /\ ivBuf = <<>> /\ rpos = 0
    /\ received = RelayRequest
    /\ readFailed = FALSE /\ shortRead = FALSE
    /\ lockDown = FALSE
    /\ pipes = [p \in PipeNames |-> [pc |-> "top", attempts |-> 0, last |-> "none",
                                     err |-> FALSE, buf |-> <<>>, exit |-> "none", i |-> 0]]
    /\ upWire = Encrypt(ClientIV, Len(RelayRequest), SubSeq(ClientPayload, 1, up))
    /\ destIn = <<>>
    /\ destOut = SubSeq(DestPayload, 1, down)
    /\ destPos = 0
    /\ faults = 0

\* misc.EmergencyLockDown is set
LockDown ==
    /\ ppc = "piping"
    /\ ~lockDown
    /\ lockDown' = TRUE
    /\ UNCHANGED <<pipes, upWire, destIn, destOut, destPos, faults>>
    /\ UNCHANGED <<unlockVars, cipherVars, proxyVars, dnsVars, serviceVars>>

LockDownIgnored == FALSE

\* PipeTCPConnection, line 108
LockedDown == lockDown

NothingClosedOnReturn(p) == {}

\* PipeTCPConnection, lines 103-105: the deferred toConn.Close()
ClosedOnReturn(p) == {ToConn(p)}

\* The pipe p after its return for the reason exit
Returned(pp, exit) == [pp EXCEPT !.pc = "returned", !.exit = exit]

\* PipeTCPConnection, lines 107-111: the top of the loop
PipeTop(p) ==
    /\ ppc = "piping"
    /\ pipes[p].pc = "top"
    /\ IF LockedDown
       THEN /\ pipes' = [pipes EXCEPT ![p] = Returned(@, "lockdown")]
            /\ CloseConns(ClosedOnReturn(p))
       ELSE /\ pipes' = [pipes EXCEPT ![p].pc = "read", ![p].attempts = 0]
            /\ UNCHANGED <<clientConn, destConn>>
    /\ UNCHANGED <<lockDown, upWire, destIn, destOut, destPos, faults>>
    /\ UNCHANGED <<pStream, ppc, parsed, dials, padding, blackList>>
    /\ UNCHANGED <<unlockVars, cipherVars, dnsVars, serviceVars>>

\* What one attempt can come to: on a closed connection the deadline cannot
\* be set; else the transfer gives all (one of the sizes in full), or
\* nothing with an error, or a part with an error. A transfer that could
\* have given all fails at most MaxFaults times in a session.
Faulty(o, full) == o.kind = "partial" \/ (o.kind = "fail0" /\ full # {})
Outcomes(closed, parts, full) ==
    IF closed THEN {[kind |-> "deadline", n |-> 0]}
    ELSE {o \in {[kind |-> "ok", n |-> k] : k \in full}
                 \cup {[kind |-> "fail0", n |-> 0]}
                 \cup {[kind |-> "partial", n |-> k] : k \in parts} :
             Faulty(o, full) => faults < MaxFaults}

GivesUpLater(attempts) == attempts >= 6

\* ReadWithRetry line 58, WriteWithRetry line 83: the loop ends
GivesUp(attempts) == attempts >= 5

PartialTransferIgnored(n) == FALSE

\* ReadWithRetry line 62, WriteWithRetry line 87: the stream is broken
PartialTransfer(n) == n > 0

\* The attempt of the outcome o ended the call with an error
CallFailed(pp, o) ==
    o.kind # "ok" /\ (PartialTransfer(o.n) \/ GivesUp(pp.attempts + 1))

\* ReadWithRetry and WriteWithRetry, one turn of the loop: the pipe after
\* the attempt of outcome o, when failedPc is where an error leads, okPc
\* where success leads and buf what is then in hand
AfterAttempt(pp, o, okPc, failedPc, exit, buf) ==
    IF o.kind = "ok"
    THEN [pp EXCEPT !.pc = okPc, !.attempts = 0, !.last = "ok", !.err = FALSE, !.buf = buf]
    ELSE IF CallFailed(pp, o)
    THEN [pp EXCEPT !.pc = failedPc, !.attempts = @ + 1, !.last = o.kind, !.err = TRUE,
                    !.exit = IF failedPc = "returned" THEN exit ELSE @, !.i = 0]
    ELSE [pp EXCEPT !.attempts = @ + 1, !.last = o.kind, !.err = TRUE]

\* The connections an attempt on c closes: c when the transfer broke, and
\* the pipe's toConn when the pipe returns
ClosedBy(p, pp, o, c, returns) ==
    (IF o.kind # "ok" /\ PartialTransfer(o.n) THEN {c} ELSE {})
    \cup (IF CallFailed(pp, o) /\ returns THEN ClosedOnReturn(p) ELSE {})

\* PipeTCPConnection lines 112-118 with ReadWithRetry lines 56-75: one
\* attempt to read from fromConn. The up pipe reads through the cipher
\* (Read, lines 205-216); when the call fails it goes on to WriteRand.
ReadAttempt(p) ==
    LET pp == pipes[p]
        avail == IF p = "up" THEN Len(upWire) - rpos ELSE Len(destOut) - destPos
    IN  /\ ppc = "piping"
        /\ pp.pc = "read"
        /\ \E o \in Outcomes(IsClosed(FromConn(p)), 1..avail, 1..avail) :
            /\ IF p = "up"
               THEN LET chunk == Decrypt(decIV, decPos, SubSeq(upWire, rpos + 1, rpos + o.n))
                    IN  /\ rpos' = rpos + o.n
                        /\ decPos' = decPos + KeystreamUsed(o.n)
                        /\ received' = received \o chunk
                        /\ readFailed' = (readFailed \/ o.kind # "ok")
                        /\ pipes' = [pipes EXCEPT ![p] =
                               AfterAttempt(pp, o, "write", "rand", "readErr", chunk)]
                        /\ UNCHANGED destPos
               ELSE LET chunk == SubSeq(destOut, destPos + 1, destPos + o.n)
                    IN  /\ destPos' = destPos + o.n
                        /\ pipes' = [pipes EXCEPT ![p] =
                               AfterAttempt(pp, o, "write", "returned", "readErr", chunk)]
                        /\ UNCHANGED <<rpos, decPos, received, readFailed>>
            /\ CloseConns(ClosedBy(p, pp, o, FromConn(p), ~DoWriteRand(p)))
            /\ faults' = faults + (IF Faulty(o, 1..avail) THEN 1 ELSE 0)
        /\ UNCHANGED <<lockDown, upWire, destIn, destOut>>
        /\ UNCHANGED <<pStream, ppc, parsed, dials, padding, blackList>>
        /\ UNCHANGED <<encStream, encIV, encPos, written, writeFailed, wire, wireKind,
                       decStream, decIV, connIV, rpc, rlen, ivBuf, shortRead>>
        /\ UNCHANGED <<unlockVars, dnsVars, serviceVars>>

\* The sizes the client can take of a Write of size bytes through the cipher
Room(sizes) == {k \in sizes : Len(wire) + k <= MaxWire}

\* PipeTCPConnection lines 119-123 with WriteWithRetry lines 81-100: one
\* attempt to write the bytes in hand to toConn. The down pipe writes
\* through the cipher (Write, lines 219-249).
WriteAttempt(p) ==
    LET pp == pipes[p]
    IN  /\ ppc = "piping"
        /\ pp.pc = "write"
        /\ IF p = "up"
           THEN \E o \in Outcomes(IsClosed(ToConn(p)), 1..(Len(pp.buf) - 1), {Len(pp.buf)}) :
                   /\ destIn' = destIn \o SubSeq(pp.buf, 1, o.n)
                   /\ pipes' = [pipes EXCEPT ![p] =
                          AfterAttempt(pp, o, "top", "returned", "writeErr", <<>>)]
                   /\ CloseConns(ClosedBy(p, pp, o, ToConn(p), TRUE))
                   /\ faults' = faults + (IF Faulty(o, {Len(pp.buf)}) THEN 1 ELSE 0)
                   /\ UNCHANGED <<encStream, encIV, encPos, written, writeFailed, wire, wireKind>>
           ELSE \E drawn \in IF encStream THEN {encIV} ELSE ProxyIVs :
                LET size == Len(WriteIV(drawn)) + Len(pp.buf)
                IN  \E o \in Outcomes(IsClosed(ToConn(p)), Room(1..(size - 1)), Room({size})) :
                       /\ IF o.kind = "deadline"
                          THEN UNCHANGED <<encStream, encIV, encPos, written, writeFailed, wire, wireKind>>
                          ELSE WriteEffect(pp.buf, drawn, o.n, "ct")
                       /\ pipes' = [pipes EXCEPT ![p] =
                              AfterAttempt(pp, o, "top", "returned", "writeErr", <<>>)]
                       /\ CloseConns(ClosedBy(p, pp, o, ToConn(p), TRUE))
                       /\ faults' = faults + (IF Faulty(o, Room({size})) THEN 1 ELSE 0)
                       /\ UNCHANGED destIn
        /\ UNCHANGED <<lockDown, upWire, destOut, destPos>>
        /\ UNCHANGED <<pStream, ppc, parsed, dials, padding, blackList>>
        /\ UNCHANGED <<decStream, decIV, decPos, connIV, rpc, rlen, ivBuf, rpos, received,
                       readFailed, shortRead>>
        /\ UNCHANGED <<unlockVars, dnsVars, serviceVars>>

\* The packets of WriteRand, one symbol standing for each
RandBufs == {<<1>>}
\* RandNum(1, 2, 5) is at most
MaxRandPackets == 5

\* PipeTCPConnection lines 114-117 with WriteRand lines 22-41: one turn of
\* WriteRand's loop on the client connection, through the cipher; after the
\* last turn the pipe returns.
WriteRand(p) ==
    LET pp == pipes[p]
    IN  /\ ppc = "piping"
        /\ pp.pc = "rand"
        /\ \E rb \in RandBufs, more \in BOOLEAN, drawn \in IF encStream THEN {encIV} ELSE ProxyIVs :
           LET size == Len(WriteIV(drawn)) + Len(rb)
           IN  \E o \in Outcomes(IsClosed(FromConn(p)), Room(1..(size - 1)), Room({size})) :
                  /\ IF o.kind = "deadline"
                     THEN UNCHANGED <<encStream, encIV, encPos, written, writeFailed, wire, wireKind>>
                     ELSE WriteEffect(rb, drawn, o.n, "rand")
                  /\ IF o.kind = "ok" /\ more /\ pp.i + 1 < MaxRandPackets
                     THEN /\ pipes' = [pipes EXCEPT ![p].i = @ + 1]
                          /\ UNCHANGED <<clientConn, destConn>>
                     ELSE /\ pipes' = [pipes EXCEPT ![p] = Returned(@, "readErr")]
                          /\ CloseConns(ClosedOnReturn(p))
                  /\ faults' = faults + (IF Faulty(o, Room({size})) THEN 1 ELSE 0)
        /\ UNCHANGED <<lockDown, upWire, destIn, destOut, destPos>>
        /\ UNCHANGED <<pStream, ppc, parsed, dials, padding, blackList>>
        /\ UNCHANGED <<decStream, decIV, decPos, connIV, rpc, rlen, ivBuf, rpos, received,
                       readFailed, shortRead>>
        /\ UNCHANGED <<unlockVars, dnsVars, serviceVars>>

PipeStep(p) == PipeTop(p) \/ ReadAttempt(p) \/ WriteAttempt(p) \/ (DoWriteRand(p) /\ WriteRand(p))

PipesDone == \A p \in PipeNames : pipes[p].pc = "returned"

(***************************************************************************)
(* dnsd: UpdateBlackList and the lookups that run beside it                *)
(***************************************************************************)
Updaters == {"u1", "u2"}
Readers == {"r1"}

\* "github.com", "c.example.com", "140.82.112.3"
GithubCom == <<103, 105, 116, 104, 117, 98, 46, 99, 111, 109>>
CExampleCom == <<99, 46, 101, 120, 97, 109, 112, 108, 101, 46, 99, 111, 109>>
GithubIP == <<49, 52, 48, 46, 56, 50, 46, 49, 49, 50, 46, 51>>

\* The lines the blacklist sources hold, as downloaded: "github.com",
\* " Evil.COM" with a leading blank, "c.example.com", a line with a NUL
\* byte, "EXAMPLE.org"
Catalogue ==
    << GithubCom,
       <<32, 69, 118, 105, 108, 46, 67, 79, 77>>,
       CExampleCom,
       <<97, 0, 46, 99, 111, 109>>,
       <<69, 88, 65, 77, 80, 76, 69, 46, 111, 114, 103>> >>

\* DownloadAllBlacklists: the count lines the sources hold
DownloadAllBlacklists(count) ==
    [k \in 1..count |-> Catalogue[((k - 1) % Len(Catalogue)) + 1]]

\* net.LookupIP: the texts of the addresses of a name; {} when the lookup fails
LookupIP(name) ==
    IF name = GithubCom THEN {GithubIP}
    ELSE IF name = BlockedName THEN {BlockedIP}
    ELSE {}

\* The values of maxEntries UpdateBlackList is called with
MaxEntriesPool == {MaxDownload - 1, MaxDownload}

\* numRoutines: 8, or 4 on Windows
NumRoutines(hostIsWindows) == IF hostIsWindows THEN 4 ELSE 8

\* The names a lookup is made for: "a.b.c.example.com", "b.example.com",
\* "GiThUb.CoM", ".evil.com", "x.evil.com." and one of 256 characters
ReaderNames ==
    { <<97, 46, 98, 46, 99, 46, 101, 120, 97, 109, 112, 108, 101, 46, 99, 111, 109>>,
      <<98, 46, 101, 120, 97, 109, 112, 108, 101, 46, 99, 111, 109>>,
      <<71, 105, 84, 104, 85, 98, 46, 67, 111, 77>>,
      <<46, 101, 118, 105, 108, 46, 99, 111, 109>>,
      <<120, 46, 101, 118, 105, 108, 46, 99, 111, 109, 46>>,
      [i \in 1..256 |-> 97] }

\* An updater outside UpdateBlackList, a reader outside IsInBlacklist
UpdaterIdle ==
    [pc |-> "idle", outcome |-> "none", allNames |-> <<>>, numRoutines |-> 0,
     next |-> <<>>, newBlackList |-> {}]
ReaderIdle ==
    [pc |-> "idle", name |-> <<>>, candidates |-> <<>>, seen |-> {}, result |-> "none",
     answers |-> [source |-> "none", addresses |-> <<>>]]

DnsIdle ==
    /\ blackListUpdating = 0
    /\ blackListMutex = [writer |-> FALSE, waiting |-> {}, readers |-> {}]
    /\ updaters = [u \in Updaters |-> UpdaterIdle]
    /\ lookups = [r \in Readers |-> ReaderIdle]

\* The blacklist of a daemon at work: the empty map of Initialise, or what
\* an earlier update left
InstalledLists ==
    { {},
      {CExampleCom},
      {GithubCom, GithubIP},
      {BlockedName, BlockedIP},
      {GithubCom, GithubIP, BlockedName, BlockedIP, CExampleCom} }

\* A daemon with no update and no lookup under way
DnsStart(bl) ==
    /\ blackListUpdating = 0
    /\ blackListMutex = [writer |-> FALSE, waiting |-> {}, readers |-> {}]
    /\ updaters = [u \in Updaters |-> UpdaterIdle]
    /\ lookups = [r \in Readers |-> ReaderIdle]
    /\ ProxyIdle(<<>>, bl)

CasAlwaysSwaps(value, old) == TRUE

\* atomic.CompareAndSwapInt32(&v, old, new) swaps when v holds old
CompareAndSwap(value, old) == value = old

\* UpdateBlackList, the guard: the call goes on when it has set
\* blackListUpdating from 0 to 1 and returns otherwise
UpdateEnter(u) ==
    /\ updaters[u].pc = "idle"
    /\ IF CompareAndSwap(blackListUpdating, 0)
       THEN /\ blackListUpdating' = 1
            /\ updaters' = [updaters EXCEPT ![u] = [UpdaterIdle EXCEPT !.pc = "download"]]
       ELSE /\ blackListUpdating' = blackListUpdating
            /\ updaters' = [updaters EXCEPT ![u] = [UpdaterIdle EXCEPT !.outcome = "skipped"]]
    /\ UNCHANGED <<blackListMutex, lookups, blackList, sessionVars, nonDnsVars>>

\* The download, the cut to maxEntries and the start of the routines: the
\* routine i begins at the index i * (len(allNames) / numRoutines)
UpdateDownload(u) ==
    /\ updaters[u].pc = "download"
    /\ \E count \in 0..MaxDownload, maxEntries \in MaxEntriesPool, hostIsWindows \in BOOLEAN :
          LET all == DownloadAllBlacklists(count)
              allNames == IF Len(all) > maxEntries THEN SubSeq(all, 1, maxEntries) ELSE all
              numRoutines == NumRoutines(hostIsWindows)
          IN  updaters' = [updaters EXCEPT ![u] =
                  [@ EXCEPT !.pc = "resolve", !.allNames = allNames,
                            !.numRoutines = numRoutines,
                            !.next = [i \in 1..numRoutines |->
                                         (i - 1) * (Len(allNames) \div numRoutines)],
                            !.newBlackList = {}]]
    /\ UNCHANGED <<blackListUpdating, blackListMutex, lookups, blackList,
                   sessionVars, nonDnsVars>>

\* Where the routine i (from 1) of an update stops
SliceEnd(up, i) == i * (Len(up.allNames) \div up.numRoutines)

\* One turn of the loop of the routine i: the name at its index, trimmed and
\* in lower case, is skipped when it holds a NUL byte and otherwise goes into
\* the new blacklist with the addresses it resolves to
UpdateResolve(u, i) ==
    LET up == updaters[u]
    IN  /\ up.pc = "resolve"
        /\ i \in 1..up.numRoutines
        /\ up.next[i] < SliceEnd(up, i)
        /\ LET name == ToLower(TrimSpace(up.allNames[up.next[i] + 1]))
               added == IF 0 \in Range(name) THEN {} ELSE {name} \cup LookupIP(name)
           IN  updaters' = [updaters EXCEPT ![u] =
                   [@ EXCEPT !.next[i] = @ + 1, !.newBlackList = @ \cup added]]
        /\ UNCHANGED <<blackListUpdating, blackListMutex, lookups, blackList,
                       sessionVars, nonDnsVars>>

\* parallelResolve.Wait() returns when every routine is done; the call then
\* asks for the write lock
UpdateWait(u) ==
    LET up == updaters[u]
    IN  /\ up.pc = "resolve"
        /\ \A i \in 1..up.numRoutines : up.next[i] >= SliceEnd(up, i)
        /\ updaters' = [updaters EXCEPT ![u].pc = "lock"]
        /\ blackListMutex' = [blackListMutex EXCEPT !.waiting = @ \cup {u}]
        /\ UNCHANGED <<blackListUpdating, lookups, blackList, sessionVars,
                       nonDnsVars>>

LockIgnoresReaders(mutex) == ~mutex.writer

\* sync.RWMutex: Lock is granted when no one holds the mutex; RLock is granted
\* when no writer holds it or waits for it
CanLock(mutex) == ~mutex.writer /\ mutex.readers = {}
CanRLock(mutex) == ~mutex.writer /\ mutex.waiting = {}

UpdateLock(u) ==
    /\ updaters[u].pc = "lock"
    /\ CanLock(blackListMutex)
    /\ blackListMutex' = [blackListMutex EXCEPT !.writer = TRUE, !.waiting = @ \ {u}]
    /\ updaters' = [updaters EXCEPT ![u].pc = "swap"]
    /\ UNCHANGED <<blackListUpdating, lookups, blackList, sessionVars,
                   nonDnsVars>>

\* daemon.blackList = newBlackList
UpdateSwap(u) ==
    /\ updaters[u].pc = "swap"
    /\ blackList' = updaters[u].newBlackList
    /\ updaters' = [updaters EXCEPT ![u].pc = "unlock"]
    /\ UNCHANGED <<blackListUpdating, blackListMutex, lookups, sessionVars, nonDnsVars>>

UpdateUnlock(u) ==
    /\ updaters[u].pc = "unlock"
    /\ blackListMutex' = [blackListMutex EXCEPT !.writer = FALSE]
    /\ updaters' = [updaters EXCEPT ![u].pc = "reset"]
    /\ UNCHANGED <<blackListUpdating, lookups, blackList, sessionVars,
                   nonDnsVars>>

\* The deferred atomic.StoreInt32(&daemon.blackListUpdating, 0)
UpdateReturn(u) ==
    /\ updaters[u].pc = "reset"
    /\ blackListUpdating' = 0
    /\ updaters' = [updaters EXCEPT ![u].pc = "idle", ![u].outcome = "ran"]
    /\ UNCHANGED <<blackListMutex, lookups, blackList, sessionVars, nonDnsVars>>

UpdateBlackList(u) ==
    \/ UpdateEnter(u)
    \/ UpdateDownload(u)
    \/ \E i \in 1..8 : UpdateResolve(u, i)
    \/ UpdateWait(u)
    \/ UpdateLock(u)
    \/ UpdateSwap(u)
    \/ UpdateUnlock(u)
    \/ UpdateReturn(u)

\* A sequence of the texts of S, the longest first
RECURSIVE LongestFirst(_)
LongestFirst(S) ==
    IF S = {} THEN <<>>
    ELSE LET c == CHOOSE x \in S : \A y \in S : Len(y) <= Len(x)
         IN  <<c>> \o LongestFirst(S \ {c})

\* blackListCandidates: the name, then what the loop appended
CandidateList(name) == <<name>> \o LongestFirst(StrippedCandidates(name))

\* IsInBlacklist, from the RLock to the candidates
LookupRLock(r) ==
    /\ lookups[r].pc = "idle"
    /\ CanRLock(blackListMutex)
    /\ blackListMutex' = [blackListMutex EXCEPT !.readers = @ \cup {r}]
    /\ \E nameOrIP \in ReaderNames :
          lookups' = [lookups EXCEPT ![r] =
              IF Len(nameOrIP) > 255
              THEN [ReaderIdle EXCEPT !.pc = "unlock", !.name = nameOrIP, !.result = TRUE]
              ELSE [ReaderIdle EXCEPT !.pc = "test", !.name = nameOrIP,
                        !.candidates = CandidateList(ToLower(TrimSpace(nameOrIP)))]]
    /\ UNCHANGED <<blackListUpdating, updaters, blackList, sessionVars,
                   nonDnsVars>>

\* One turn of the loop over the candidates
LookupTest(r) ==
    LET lk == lookups[r]
    IN  /\ lk.pc = "test"
        /\ lookups' = [lookups EXCEPT ![r] =
              IF Head(lk.candidates) \in blackList
              THEN [lk EXCEPT !.pc = "unlock", !.result = TRUE, !.seen = @ \cup {blackList}]
              ELSE IF Len(lk.candidates) = 1
              THEN [lk EXCEPT !.pc = "unlock", !.result = FALSE, !.seen = @ \cup {blackList},
                              !.candidates = <<>>]
              ELSE [lk EXCEPT !.candidates = Tail(@), !.seen = @ \cup {blackList}]]
        /\ UNCHANGED <<blackListUpdating, blackListMutex, updaters, blackList,
                       sessionVars, nonDnsVars>>

\* "0.0.0.0"
BlackHoleAnswer == <<48, 46, 48, 46, 48, 46, 48>>

\* The answer to an A query: the black hole for a blacklisted name, and
\* otherwise the forwarder's answer, whose addresses are left out
AnswerA(blacklisted) ==
    IF blacklisted THEN [source |-> "blackhole", addresses |-> <<BlackHoleAnswer>>]
    ELSE [source |-> "forwarder", addresses |-> <<>>]

\* The deferred RUnlock, and the answer made of the result
LookupReturn(r) ==
    /\ lookups[r].pc = "unlock"
    /\ blackListMutex' = [blackListMutex EXCEPT !.readers = @ \ {r}]
    /\ lookups' = [lookups EXCEPT ![r] =
          [ReaderIdle EXCEPT !.name = lookups[r].name, !.answers = AnswerA(lookups[r].result)]]
    /\ UNCHANGED <<blackListUpdating, updaters, blackList, sessionVars,
                   nonDnsVars>>

Lookup(r) == LookupRLock(r) \/ LookupTest(r) \/ LookupReturn(r)

(***************************************************************************)
(* dnsd: the clients that may query                                        *)
(***************************************************************************)
PublicIPRefreshIntervalSec == 900

Requesters == {"q1", "q2"}

\* "127.0.0.1", "::1", "1.2.3.4", "192.168.0.5", "8.8.8.8", "192."
Loopback4Text == <<49, 50, 55, 46, 48, 46, 48, 46, 49>>
Loopback6Text == <<58, 58, 49>>
PublicA == <<49, 46, 50, 46, 51, 46, 52>>
LanClient == <<49, 57, 50, 46, 49, 54, 56, 46, 48, 46, 53>>
Stranger == <<56, 46, 56, 46, 56, 46, 56>>
LanPrefix == <<49, 57, 50, 46>>

\* The client addresses of the requests: none, the ones above and one of 65
\* characters
ClientIPs ==
    {<<>>, Loopback4Text, Loopback6Text, PublicA, LanClient, Stranger, [i \in 1..65 |-> 49]}

\* inet.GetPublicIP: the address found, or "" when it cannot be determined
PublicIPs == {<<>>, PublicA}

\* The configured AllowQueryIPPrefixes: nil, a prefix, and a list with an
\* empty string in it
PrefixConfigs == {<<>>, <<LanPrefix>>, <<LanPrefix, <<>>>>}

\* time.Now().Unix() when the daemon is constructed, and the seconds that
\* pass between two steps
BootTime == PublicIPRefreshIntervalSec + 100
TickSteps == {1, PublicIPRefreshIntervalSec}

\* A requester outside checkAllowClientIP. Its stale field tells whether the
\* last refresh was more than PublicIPRefreshIntervalSec seconds old when the
\* request arrived or, later, when allowMyPublicIP looked at the time.
QueryIdle ==
    [pc |-> "idle", clientIP |-> <<>>, result |-> "none", sawPublicIP |-> <<>>,
     stale |-> FALSE, refreshed |-> FALSE, fastTrack |-> FALSE]

\* The daemon as constructed, before Initialise
AllowNew(prefixes) ==
    /\ daemonState = "new"
    /\ AllowQueryIPPrefixes = prefixes
    /\ myPublicIP = <<>>
    /\ allowQueryLastUpdate = 0
    /\ allowQueryMutex = "free"
    /\ now = BootTime
    /\ ticks = 0
    /\ queries = [q \in Requesters |-> QueryIdle]

\* time passes
Tick ==
    /\ ticks < MaxTicks
    /\ ticks' = ticks + 1
    /\ \E d \in TickSteps : now' = now + d
    /\ UNCHANGED <<daemonState, AllowQueryIPPrefixes, myPublicIP, allowQueryLastUpdate,
                   allowQueryMutex, queries>>
    /\ UNCHANGED nonAllowVars

RefreshAlways(lastUpdate, time) == TRUE

\* allowMyPublicIP, its first lines: the refresh is due when the last one is
\* more than PublicIPRefreshIntervalSec seconds old
RefreshDue(lastUpdate, time) == ~(lastUpdate + PublicIPRefreshIntervalSec >= time)

\* Initialise, the part of the allowed clients: an empty prefix is an error;
\* otherwise the first allowMyPublicIP runs, with no other routine about
Initialise ==
    /\ daemonState = "new"
    /\ IF \E i \in 1..Len(AllowQueryIPPrefixes) : AllowQueryIPPrefixes[i] = <<>>
       THEN /\ daemonState' = "failed"
            /\ UNCHANGED <<myPublicIP, allowQueryLastUpdate>>
       ELSE /\ daemonState' = "ready"
            /\ IF RefreshDue(allowQueryLastUpdate, now)
               THEN /\ \E latestIP \in PublicIPs :
                          myPublicIP' = IF latestIP = <<>> THEN myPublicIP ELSE latestIP
                    /\ allowQueryLastUpdate' = now
               ELSE UNCHANGED <<myPublicIP, allowQueryLastUpdate>>
    /\ UNCHANGED <<AllowQueryIPPrefixes, allowQueryMutex, now, ticks, queries>>
    /\ UNCHANGED nonAllowVars

RefusedWhenLong(clientIP) == Len(clientIP) > 64

\* checkAllowClientIP, its first test
RefusedAtOnce(clientIP) == clientIP = <<>> \/ Len(clientIP) > 64

\* The fast track
IsFastTrack(clientIP, publicIP) ==
    \/ HasPrefix(clientIP, <<49, 50, 55, 46>>)
    \/ clientIP = Loopback6Text
    \/ clientIP = publicIP

\* checkAllowClientIP up to the call of allowMyPublicIP
CheckClient(q) ==
    /\ daemonState = "ready"
    /\ queries[q].pc = "idle"
    /\ \E clientIP \in ClientIPs :
          LET arrived == [QueryIdle EXCEPT !.clientIP = clientIP,
                              !.stale = now - allowQueryLastUpdate > PublicIPRefreshIntervalSec]
          IN  queries' = [queries EXCEPT ![q] =
                  IF RefusedAtOnce(clientIP)
                  THEN [arrived EXCEPT !.result = "refused"]
                  ELSE IF IsFastTrack(clientIP, myPublicIP)
                  THEN [arrived EXCEPT !.result = "allowed", !.sawPublicIP = myPublicIP,
                                       !.fastTrack = TRUE]
                  ELSE [arrived EXCEPT !.pc = "refresh", !.sawPublicIP = myPublicIP]]
    /\ UNCHANGED <<daemonState, AllowQueryIPPrefixes, myPublicIP, allowQueryLastUpdate,
                   allowQueryMutex, now, ticks>>
    /\ UNCHANGED nonAllowVars

\* allowMyPublicIP, the test of the time
AllowMyPublicIPTest(q) ==
    /\ queries[q].pc = "refresh"
    /\ queries' = [queries EXCEPT ![q] =
          [@ EXCEPT !.stale = now - allowQueryLastUpdate > PublicIPRefreshIntervalSec,
                    !.pc = IF RefreshDue(allowQueryLastUpdate, now) THEN "lock" ELSE "prefixes"]]
    /\ UNCHANGED <<daemonState, AllowQueryIPPrefixes, myPublicIP, allowQueryLastUpdate,
                   allowQueryMutex, now, ticks>>
    /\ UNCHANGED nonAllowVars

\* allowQueryMutex.Lock(), in allowMyPublicIP and in checkAllowClientIP
AllowQueryLock(q) ==
    /\ queries[q].pc \in {"lock", "prefixes"}
    /\ allowQueryMutex = "free"
    /\ allowQueryMutex' = q
    /\ queries' = [queries EXCEPT ![q].pc = IF @ = "lock" THEN "getIP" ELSE "match"]
    /\ UNCHANGED <<daemonState, AllowQueryIPPrefixes, myPublicIP, allowQueryLastUpdate,
                   now, ticks>>
    /\ UNCHANGED nonAllowVars

\* inet.GetPublicIP() and what is made of it
AllowMyPublicIPGet(q) ==
    /\ queries[q].pc = "getIP"
    /\ \E latestIP \in PublicIPs :
          myPublicIP' = IF latestIP = <<>> THEN myPublicIP ELSE latestIP
    /\ queries' = [queries EXCEPT ![q].pc = "deferred", ![q].refreshed = TRUE]
    /\ UNCHANGED <<daemonState, AllowQueryIPPrefixes, allowQueryLastUpdate, allowQueryMutex,
                   now, ticks>>
    /\ UNCHANGED nonAllowVars

\* The deferred calls of allowMyPublicIP: the time of the refresh is recorded,
\* then the mutex is unlocked
AllowMyPublicIPReturn(q) ==
    /\ queries[q].pc = "deferred"
    /\ allowQueryLastUpdate' = now
    /\ allowQueryMutex' = "free"
    /\ queries' = [queries EXCEPT ![q].pc = "prefixes"]
    /\ UNCHANGED <<daemonState, AllowQueryIPPrefixes, myPublicIP, now, ticks>>
    /\ UNCHANGED nonAllowVars

\* The loop over the prefixes and the deferred Unlock
MatchPrefixes(q) ==
    /\ queries[q].pc = "match"
    /\ allowQueryMutex' = "free"
    /\ queries' = [queries EXCEPT ![q].pc = "idle", ![q].result =
          IF \E i \in 1..Len(AllowQueryIPPrefixes) :
                 HasPrefix(queries[q].clientIP, AllowQueryIPPrefixes[i])
          THEN "allowed" ELSE "refused"]
    /\ UNCHANGED <<daemonState, AllowQueryIPPrefixes, myPublicIP, allowQueryLastUpdate,
                   now, ticks>>
    /\ UNCHANGED nonAllowVars

\* The daemon before Initialise
AllowIdle == AllowNew(<<>>)

CheckAllowClientIP(q) ==
    \/ CheckClient(q)
    \/ AllowMyPublicIPTest(q)
    \/ AllowQueryLock(q)
    \/ AllowMyPublicIPGet(q)
    \/ AllowMyPublicIPReturn(q)
    \/ MatchPrefixes(q)

(***************************************************************************)
(* Properties of the pipes                                                 *)
(***************************************************************************)
IsPrefix(a, b) == Len(a) <= Len(b) /\ a = SubSeq(b, 1, Len(a))

\* What the client makes of the bytes it was sent: the first IVLength are
\* the IV, the rest it decrypts in order
PeerPlaintext ==
    IF Len(wire) <= IVLength THEN <<>>
    ELSE Decrypt(SubSeq(wire, 1, IVLength), 0, SubSeq(wire, IVLength + 1, Len(wire)))

\* C13: in each direction what the receiver has got is a prefix of what the
\* sender sent: the destination of the client's payload, and the client (as
\* long as no random trailing bytes were sent to it) of the destination's bytes.
RelayedInOrder ==
    ppc = "piping" =>
        /\ IsPrefix(destIn, SubSeq(pStream, Len(RelayRequest) + 1, Len(pStream)))
        /\ "rand" \notin Range(wireKind) => IsPrefix(PeerPlaintext, destOut)

\* C14: with the lock-down flag set, a pipe at the top of its loop returns
\* and closes its toConn; a pipe that has returned relays nothing more; and
\* when both pipes were stopped this way both connections are closed.
LockDownStopsPipes ==
    /\ [][\A p \in PipeNames :
            (lockDown /\ pipes[p].pc = "top" /\ pipes'[p] # pipes[p]) =>
                /\ pipes'[p].pc = "returned"
                /\ (IF ToConn(p) = "client" THEN clientConn' ELSE destConn') = "closed"
                /\ wire' = wire /\ destIn' = destIn]_vars
    /\ [][(pipes["up"].pc = "returned" => destIn' = destIn)
          /\ (PipesDone => wire' = wire)
          /\ (pipes["down"].pc = "returned" => destPos' = destPos)]_vars
    /\ []((\A p \in PipeNames : pipes[p].exit = "lockdown")
            => clientConn = "closed" /\ destConn = "closed")

\* C14 witness: both pipes were stopped by the lock-down before the
\* destination's bytes were relayed
LockDownWitness ==
    /\ lockDown
    /\ \A p \in PipeNames : pipes[p].exit = "lockdown"
    /\ clientConn = "closed" /\ destConn = "closed"
    /\ Len(destOut) = MaxRelay /\ destPos = 0 /\ wire = <<>>

\* The step moved bytes for the call the pipe p is in
Moved(p) ==
    \/ pipes[p].pc = "read" /\ (IF p = "up" THEN rpos' # rpos ELSE destPos' # destPos)
    \/ pipes[p].pc = "write" /\ (IF p = "up" THEN destIn' # destIn ELSE wire' # wire)

\* C15: a call of ReadWithRetry or WriteWithRetry makes an attempt only
\* while fewer than 5 were made; an attempt without error ends the call; an
\* error after some bytes closes the connection and ends the call with the
\* error; an error with no byte leads to another attempt unless it was the
\* fifth.
RetryStopsRight ==
    /\ [](\A p \in PipeNames : pipes[p].pc \in {"read", "write"} => pipes[p].attempts < 5)
    /\ [][\A p \in PipeNames :
            (pipes[p].pc \in {"read", "write"} /\ pipes'[p] # pipes[p]) =>
                LET a == pipes[p]
                    b == pipes'[p]
                    c == IF a.pc = "read" THEN FromConn(p) ELSE ToConn(p)
                IN  /\ ~b.err => b.pc # a.pc /\ b.attempts = 0
                    /\ b.err /\ Moved(p) =>
                          /\ b.pc \notin {"read", "write"}
                          /\ (IF c = "client" THEN clientConn' ELSE destConn') = "closed"
                    /\ b.err /\ ~Moved(p) =>
                          /\ b.attempts = a.attempts + 1
                          /\ b.pc = a.pc <=> b.attempts < 5]_vars

\* C15 witness: a write through the cipher failed after a part of its bytes,
\* the pipe returned and the client connection is closed
PartialWriteWitness ==
    /\ pipes["down"].last = "partial"
    /\ pipes["down"].exit = "writeErr"
    /\ pipes["down"].attempts = 2
    /\ clientConn = "closed"

ReadGaveUp(p) ==
    /\ pipes[p].attempts = 5
    /\ \/ pipes[p].pc = "rand"
       \/ pipes[p].pc = "returned" /\ pipes[p].exit = "readErr"
WriteGaveUp(p) ==
    pipes[p].attempts = 5 /\ pipes[p].pc = "returned" /\ pipes[p].exit = "writeErr"

\* C16: after a read or a write has failed five times, the connection it
\* was made on is closed: the one written to at once, the one read from in
\* the end.
FailedConnClosed ==
    /\ [](WriteGaveUp("up") => destConn = "closed")
    /\ [](WriteGaveUp("down") => clientConn = "closed")
    /\ (ReadGaveUp("up") ~> clientConn = "closed")
    /\ (ReadGaveUp("down") ~> destConn = "closed")

\* C16 witness: the reads from the client failed five times, and the client
\* connection was closed by the other pipe when its own reads had failed
\* five times
ReadGaveUpWitness ==
    /\ ReadGaveUp("up")
    /\ pipes["up"].last = "fail0"
    /\ ReadGaveUp("down")
    /\ clientConn = "closed"
    /\ ~lockDown

(***************************************************************************)
(* Properties of the blacklist                                             *)
(***************************************************************************)
\* "a.b.c.example.com", "b.example.com", "GiThUb.CoM"
ABCExampleCom == <<97, 46, 98, 46, 99, 46, 101, 120, 97, 109, 112, 108, 101, 46, 99, 111, 109>>
BExampleCom == <<98, 46, 101, 120, 97, 109, 112, 108, 101, 46, 99, 111, 109>>
GiThUbCoM == <<71, 105, 84, 104, 85, 98, 46, 67, 111, 77>>

\* The names the matching is examined for: those of the lookups, and
\* "c.example.com", "github.com", "GITHUB.COM", "A.B.C.Example.Com",
\* " evil.com", "a..evil.com", "a.io", "93.184.216.34" and a name of 255
\* characters
QueryNames ==
    ReaderNames \cup
    { CExampleCom, GithubCom, BlockedIP,
      <<71, 73, 84, 72, 85, 66, 46, 67, 79, 77>>,
      <<65, 46, 66, 46, 67, 46, 69, 120, 97, 109, 112, 108, 101, 46, 67, 111, 109>>,
      <<32, 101, 118, 105, 108, 46, 99, 111, 109>>,
      <<97, 46, 46, 101, 118, 105, 108, 46, 99, 111, 109>>,
      <<97, 46, 105, 111>>,
      [i \in 1..255 |-> 97] }

\* What is left of a name when leading labels are stripped: the text after
\* each of its dots
LabelSuffixes(name) == {SubSeq(name, i + 1, Len(name)) : i \in {k \in 1..Len(name) : name[k] = 46}}

\* The name or one of its parent suffixes of 4 characters or more is in the set
SuffixMatch(name, set) ==
    \/ name \in set
    \/ \E s \in LabelSuffixes(name) : Len(s) >= 4 /\ s \in set

\* No label in front of a dot is empty
LabelsNonEmpty(name) ==
    /\ name # <<>> => name[1] # 46
    /\ \A i \in 1..(Len(name) - 1) : ~(name[i] = 46 /\ name[i + 1] = 46)

\* C17 as written: for every name of at most 255 characters IsInBlacklist is
\* true exactly when the name or one of its parent suffixes of 4 characters
\* or more is in the set.
SuffixMatchOfEveryName ==
    \A name \in QueryNames :
        Len(name) <= 255 => (IsInBlacklist(name) <=> SuffixMatch(name, blackList))

\* C17 amended: for every name of at most 255 characters which, trimmed and
\* in lower case, has no empty label in front of a dot, IsInBlacklist is true
\* exactly when that trimmed lower-case name or one of its parent suffixes of
\* 4 characters or more is in the set; and a lookup returns that.
SuffixMatchOfLabels ==
    /\ \A name \in QueryNames :
          (Len(name) <= 255 /\ LabelsNonEmpty(ToLower(TrimSpace(name)))) =>
              (IsInBlacklist(name) <=> SuffixMatch(ToLower(TrimSpace(name)), blackList))
    /\ \A r \in Readers :
          (/\ lookups[r].pc = "unlock"
           /\ Len(lookups[r].name) <= 255
           /\ LabelsNonEmpty(ToLower(TrimSpace(lookups[r].name)))) =>
              \A set \in lookups[r].seen :
                  lookups[r].result <=> SuffixMatch(ToLower(TrimSpace(lookups[r].name)), set)

\* C17 witness: with only c.example.com in the set, the lookup of
\* a.b.c.example.com found it
SuffixFoundWitness ==
    \E r \in Readers :
        /\ lookups[r].pc = "unlock"
        /\ lookups[r].name = ABCExampleCom
        /\ lookups[r].seen = {{CExampleCom}}
        /\ lookups[r].result = TRUE

\* Two texts that differ in the case of their letters only
SameUpToCase(a, b) ==
    /\ Len(a) = Len(b)
    /\ \A i \in 1..Len(a) :
          \/ a[i] = b[i]
          \/ a[i] \in 65..90 /\ b[i] = a[i] + 32
          \/ b[i] \in 65..90 /\ a[i] = b[i] + 32

\* C18: IsInBlacklist gives one result for names that differ in case only,
\* and the A query for GiThUb.CoM made while github.com is in the set gets
\* the one answer 0.0.0.0.
CaseInsensitiveMatch ==
    /\ [](\A a, b \in QueryNames : SameUpToCase(a, b) => (IsInBlacklist(a) <=> IsInBlacklist(b)))
    /\ [][\A r \in Readers :
            (/\ lookups[r].pc = "unlock" /\ lookups'[r].pc = "idle"
             /\ lookups[r].name = GiThUbCoM
             /\ GithubCom \in blackList) =>
                lookups'[r].answers.addresses = <<BlackHoleAnswer>>]_vars

\* C18 witness: the query for GiThUb.CoM was answered with the black hole
BlackHoleWitness ==
    \E r \in Readers :
        /\ lookups[r].pc = "idle"
        /\ lookups[r].name = GiThUbCoM
        /\ lookups[r].answers.addresses = <<BlackHoleAnswer>>
        /\ GithubCom \in blackList

\* Every routine of the update has gone through its slice
RoutinesDone(up) == \A i \in 1..up.numRoutines : up.next[i] = SliceEnd(up, i)

\* C19: a lookup tests its candidates against one set; the set changes only
\* by the assignment of a new blacklist all of whose routines are done, made
\* while no lookup holds the read lock.
ReadersSeeOneSet ==
    /\ [](\A r \in Readers : Cardinality(lookups[r].seen) <= 1)
    /\ [][blackList' # blackList =>
            /\ blackListMutex.readers = {}
            /\ \A r \in Readers : lookups[r].pc = "idle"
            /\ \E u \in Updaters :
                  /\ updaters[u].pc = "swap"
                  /\ RoutinesDone(updaters[u])
                  /\ blackList' = updaters[u].newBlackList]_vars

\* C19 witness: a lookup in the middle of its candidates while an update,
\* whose new set differs from the one in use, waits for the lock
OverlapWitness ==
    \E r \in Readers, u \in Updaters :
        /\ lookups[r].pc = "test"
        /\ lookups[r].seen = {blackList}
        /\ updaters[u].pc = "lock"
        /\ updaters[u].newBlackList # blackList
        /\ updaters[u].newBlackList # {}

\* The updaters that are past the guard
Running == {u \in Updaters : updaters[u].pc # "idle"}

\* C20: at most one update is past the guard, and blackListUpdating is 1
\* exactly while one is; a call made meanwhile returns at once and changes
\* nothing; the update that ends resets the flag.
SingleFlight ==
    /\ [](Cardinality(Running) <= 1)
    /\ [](blackListUpdating = 1 <=> Running # {})
    /\ [](blackListUpdating \in {0, 1})
    /\ [][\A u \in Updaters :
            (updaters[u].pc = "idle" /\ Running # {} /\ updaters'[u] # updaters[u]) =>
                /\ updaters'[u] = [UpdaterIdle EXCEPT !.outcome = "skipped"]
                /\ \A v \in Updaters \ {u} : updaters'[v] = updaters[v]
                /\ UNCHANGED <<blackList, blackListUpdating, blackListMutex>>]_vars
    /\ [][\A u \in Updaters :
            (updaters[u].pc # "idle" /\ updaters'[u].pc = "idle") =>
                blackListUpdating' = 0]_vars

\* C20 witness: a call was skipped while another ran, and that one has
\* ended and reset the flag
SkippedWitness ==
    \E u, v \in Updaters :
        /\ updaters[u].outcome = "ran"
        /\ updaters[v].outcome = "skipped"
        /\ Running = {}
        /\ blackListUpdating = 0
        /\ blackList # {}

\* C21: when an update has assigned the new blacklist, the set holds every
\* downloaded name up to maxEntries (trimmed, in lower case, without NUL byte)
\* and every address those names resolve to.
AllDownloadedInstalled ==
    \A u \in Updaters :
        updaters[u].pc \in {"unlock", "reset"} =>
            \A k \in 1..Len(updaters[u].allNames) :
                LET name == ToLower(TrimSpace(updaters[u].allNames[k]))
                IN  0 \notin Range(name) => ({name} \cup LookupIP(name)) \subseteq blackList

(***************************************************************************)
(* Properties of the allowed clients                                       *)
(***************************************************************************)
\* The requests that have returned
Answered == {q \in Requesters : queries[q].pc = "idle" /\ queries[q].result # "none"}

\* The client is loopback, or the cached public IP, or has a configured prefix
AllowedSource(clientIP, publicIP, prefixes) ==
    \/ Len(clientIP) >= 4 /\ SubSeq(clientIP, 1, 4) = <<49, 50, 55, 46>>
    \/ clientIP = <<58, 58, 49>>
    \/ clientIP = publicIP
    \/ \E i \in 1..Len(prefixes) :
          /\ Len(prefixes[i]) <= Len(clientIP)
          /\ SubSeq(clientIP, 1, Len(prefixes[i])) = prefixes[i]

\* C22: a request is allowed exactly when its client IP is not empty, has at
\* most 64 characters and is loopback, the cached public IP or has a
\* configured prefix; and Initialise fails exactly when a configured prefix
\* is empty.
AllowedExactly ==
    /\ \A q \in Answered :
          queries[q].result = "allowed" <=>
              /\ queries[q].clientIP # <<>>
              /\ Len(queries[q].clientIP) <= 64
              /\ AllowedSource(queries[q].clientIP, queries[q].sawPublicIP, AllowQueryIPPrefixes)
    /\ daemonState = "ready" => \A i \in 1..Len(AllowQueryIPPrefixes) : AllowQueryIPPrefixes[i] # <<>>
    /\ daemonState = "failed" => \E i \in 1..Len(AllowQueryIPPrefixes) : AllowQueryIPPrefixes[i] = <<>>

\* C22 witness: a request without client IP was refused while the public IP
\* was still unknown
EmptyClientRefusedWitness ==
    \E q \in Answered :
        /\ queries[q].clientIP = <<>>
        /\ queries[q].result = "refused"
        /\ myPublicIP = <<>>
        /\ daemonState = "ready"

\* C23 as written: whatever its client IP, a request makes a refresh exactly
\* when the last one is more than PublicIPRefreshIntervalSec seconds old.
RefreshedWheneverStale ==
    \A q \in Answered : queries[q].refreshed <=> queries[q].stale

\* The request got past the first test and the fast track
PastFastTrack(q) ==
    /\ queries[q].clientIP # <<>>
    /\ Len(queries[q].clientIP) <= 64
    /\ ~AllowedSource(queries[q].clientIP, queries[q].sawPublicIP, <<>>)

\* C23 amended: a request whose client IP is not empty, has at most 64
\* characters and is neither loopback nor the cached public IP makes a
\* refresh exactly when the last one is more than PublicIPRefreshIntervalSec
\* seconds old; any other request makes none.
RefreshedWhenStalePastFastTrack ==
    \A q \in Answered :
        /\ PastFastTrack(q) => (queries[q].refreshed <=> queries[q].stale)
        /\ ~PastFastTrack(q) => ~queries[q].refreshed

\* C23 witness: the request of a stranger found the last refresh too old and
\* made a new one, which changed the public IP
StaleRefreshedWitness ==
    \E q \in Answered :
        /\ queries[q].clientIP = Stranger
        /\ queries[q].stale
        /\ queries[q].refreshed
        /\ myPublicIP # queries[q].sawPublicIP
        /\ allowQueryLastUpdate > BootTime + PublicIPRefreshIntervalSec

(***************************************************************************)
(* dnsd: the latest TXT commands                                           *)
(***************************************************************************)
TextCommandReplyTTL == 30

\* The command texts the TXT queries carry
CommandTexts == {"date", "uptime"}

\* The clock moves by a second or by the whole TTL
CacheSteps == {1, TextCommandReplyTTL}

\* No cache entry, no run of the processor yet
NoEntry == [result |-> -1, expiresAt |-> -1]
NoRun == [result |-> -1, at |-> -1]

\* No TXT command query yet
NoReply == [text |-> "", result |-> -1, at |-> -1, invoked |-> FALSE, lastRun |-> NoRun]

CacheIdle ==
    /\ latestCommands = [c \in CommandTexts |-> NoEntry]
    /\ processed = [c \in CommandTexts |-> NoRun]
    /\ cacheNow = 0
    /\ cacheTicks = 0
    /\ txtReply = NoReply

CacheTick ==
    /\ cacheTicks < MaxTicks
    /\ \E step \in CacheSteps : cacheNow' = cacheNow + step
    /\ cacheTicks' = cacheTicks + 1
    /\ UNCHANGED <<latestCommands, txtReply, processed, nonCacheVars>>

\* CommandProcessor.Process: the result of a command changes with the time
\* of its run, as that of date does
Process(text, time) == time

\* An entry that is kept for ever
ServedWhileKept(entry, time) == {entry.expiresAt >= 0}

\* Whether the entry is served: it is before expiresAt, it is not after it
\* nor when there is none, and at expiresAt itself either may happen
ServedFromCache(entry, time) ==
    {served \in BOOLEAN :
        /\ served => entry.expiresAt >= 0 /\ time <= entry.expiresAt
        /\ ~served => entry.expiresAt < 0 \/ time >= entry.expiresAt}

\* A TXT command query, under the mutex of the cache from the lookup to the
\* insert: an unexpired entry is the answer, and otherwise the processor runs
\* and its result is kept for TextCommandReplyTTL seconds
TXTCommandQuery(text) ==
    \E served \in ServedFromCache(latestCommands[text], cacheNow) :
        LET result == IF served THEN latestCommands[text].result ELSE Process(text, cacheNow)
        IN  /\ txtReply' = [text |-> text, result |-> result, at |-> cacheNow,
                            invoked |-> ~served, lastRun |-> processed[text]]
            /\ latestCommands' =
                  IF served THEN latestCommands
                  ELSE [latestCommands EXCEPT ![text] =
                           [result |-> result, expiresAt |-> cacheNow + TextCommandReplyTTL]]
            /\ processed' =
                  IF served THEN processed
                  ELSE [processed EXCEPT ![text] = [result |-> result, at |-> cacheNow]]
            /\ UNCHANGED <<cacheNow, cacheTicks, nonCacheVars>>

(***************************************************************************)
(* dnsd: the listeners, StartAndBlock and Stop                             *)
(***************************************************************************)
Listeners == {"udp", "tcp"}

\* A server that was made by Initialise and not started
ServerNew == [state |-> "new", stopped |-> FALSE, stopCalls |-> 0]

NoRoutine == [pc |-> "none", err |-> "none"]

ListenNew(ports) ==
    /\ listenPorts = ports
    /\ servers = [k \in Listeners |-> ServerNew]
    /\ listenerRoutines = [k \in Listeners |-> NoRoutine]
    /\ errChan = <<>>
    /\ stopAdBlockUpdater = 0
    /\ adBlockUpdater = "none"
    /\ sab = [pc |-> "idle", i |-> 0, numListeners |-> 0, err |-> "none"]
    /\ stopper = [pc |-> "idle", calls |-> 0, sawRunning |-> FALSE]

ListenIdle == ListenNew({})

\* StartAndBlock starts the updater of the blacklist and a goroutine for each
\* configured listener
StartAndBlockEnter ==
    /\ sab.pc = "idle"
    /\ adBlockUpdater' = "running"
    /\ listenerRoutines' =
          [k \in Listeners |-> IF k \in listenPorts THEN [pc |-> "start", err |-> "none"]
                               ELSE NoRoutine]
    /\ sab' = [sab EXCEPT !.pc = "receive", !.numListeners = Cardinality(listenPorts)]
    /\ UNCHANGED <<listenPorts, servers, errChan, stopAdBlockUpdater, stopper, nonListenVars>>

\* The updater loop at its start: firstTime, a timer that has not expired
UpdaterLoopNew == [firstTime |-> TRUE, due |-> FALSE, runsAfterStop |-> 0,
                   lateAfterStop |-> FALSE]

UpdaterLoopIdle == updaterLoop = UpdaterLoopNew

\* A counter that stops at MaxUpdates
Counted(n) == IF n < MaxUpdates THEN n + 1 ELSE n

StopNeverChosen(signals) == FALSE

\* Lines 313 and 323: case <-stopAdBlockUpdater can be chosen
StopSignalled(signals) == signals > 0

\* The updater returns when it receives from stopAdBlockUpdater
UpdaterReturn ==
    /\ adBlockUpdater = "running"
    /\ StopSignalled(stopAdBlockUpdater)
    /\ stopAdBlockUpdater' = stopAdBlockUpdater - 1
    /\ adBlockUpdater' = "returned"
    /\ UNCHANGED <<listenPorts, servers, listenerRoutines, errChan, sab, stopper, nonListenVars>>

\* Lines 315 and 325: time passes, and the timer of the select the updater
\* waits in expires; a select that finds the stop signal does not wait
UpdaterTimer ==
    /\ adBlockUpdater = "running"
    /\ ~updaterLoop.due
    /\ ~StopSignalled(stopAdBlockUpdater)
    /\ updaterLoop' = [updaterLoop EXCEPT !.due = TRUE]
    /\ UNCHANGED nonUpdaterVars

\* Lines 315-317 and 325-327: the select takes the timer, whether the stop
\* signal is there or not; nextRunAt moves on by the interval and
\* UpdateBlackList is called
UpdaterUpdate ==
    /\ adBlockUpdater = "running"
    /\ updaterLoop.due
    /\ adBlockUpdater' = "updating"
    /\ updaterLoop' = [updaterLoop EXCEPT
            !.due = FALSE,
            !.runsAfterStop = IF StopSignalled(stopAdBlockUpdater) THEN Counted(@) ELSE @]
    /\ UNCHANGED <<listenPorts, servers, listenerRoutines, errChan, stopAdBlockUpdater, sab,
                   stopper>>
    /\ UNCHANGED <<coreVars, allowVars, cacheVars, logVars, returnVars, serialVars, parseVars,
                   sizeVars, invokeVars, stripVars>>

\* Lines 317-319 and 327: UpdateBlackList returns and the updater waits
\* again, for time.Until(nextRunAt); when the update has outlasted the
\* interval that timer expires at once
UpdaterUpdated ==
    /\ adBlockUpdater = "updating"
    /\ adBlockUpdater' = "running"
    /\ \E outlasted \in BOOLEAN :
          updaterLoop' = [updaterLoop EXCEPT
              !.firstTime = FALSE,
              !.due = outlasted,
              !.lateAfterStop = @ \/ (outlasted /\ StopSignalled(stopAdBlockUpdater))]
    /\ UNCHANGED <<listenPorts, servers, listenerRoutines, errChan, stopAdBlockUpdater, sab,
                   stopper>>
    /\ UNCHANGED <<coreVars, allowVars, cacheVars, logVars, returnVars, serialVars, parseVars,
                   sizeVars, invokeVars, stripVars>>

\* The goroutine of lines 307-331
Updater == UpdaterReturn \/ UpdaterTimer \/ UpdaterUpdate \/ UpdaterUpdated

\* The server's StartAndBlock: it fails to listen and returns the error, or
\* it listens; a server that was stopped before returns at once
ListenerStart(k) ==
    /\ listenerRoutines[k].pc = "start"
    /\ \E listenOK \in BOOLEAN :
          IF ~listenOK
          THEN /\ servers' = [servers EXCEPT ![k].state = "returned"]
               /\ listenerRoutines' = [listenerRoutines EXCEPT ![k] = [pc |-> "send", err |-> "listen failed"]]
          ELSE IF servers[k].stopped
          THEN /\ servers' = [servers EXCEPT ![k].state = "returned"]
               /\ listenerRoutines' = [listenerRoutines EXCEPT ![k] = [pc |-> "send", err |-> "nil"]]
          ELSE /\ servers' = [servers EXCEPT ![k].state = "listening"]
               /\ listenerRoutines' = [listenerRoutines EXCEPT ![k].pc = "serving"]
    /\ UNCHANGED <<listenPorts, errChan, stopAdBlockUpdater, adBlockUpdater, sab, stopper,
                   nonListenVars>>

\* Stop has made the accept loop exit
ListenerReturn(k) ==
    /\ listenerRoutines[k].pc = "serving"
    /\ servers[k].stopped
    /\ servers' = [servers EXCEPT ![k].state = "returned"]
    /\ listenerRoutines' = [listenerRoutines EXCEPT ![k] = [pc |-> "send", err |-> "nil"]]
    /\ UNCHANGED <<listenPorts, errChan, stopAdBlockUpdater, adBlockUpdater, sab, stopper,
                   nonListenVars>>

\* errChan <- err
ListenerSend(k) ==
    /\ listenerRoutines[k].pc = "send"
    /\ Len(errChan) < 2
    /\ errChan' = Append(errChan, listenerRoutines[k].err)
    /\ listenerRoutines' = [listenerRoutines EXCEPT ![k].pc = "signal"]
    /\ UNCHANGED <<listenPorts, servers, stopAdBlockUpdater, adBlockUpdater, sab, stopper,
                   nonListenVars>>

\* stopAdBlockUpdater <- true
ListenerSignal(k) ==
    /\ listenerRoutines[k].pc = "signal"
    /\ stopAdBlockUpdater < 2
    /\ stopAdBlockUpdater' = stopAdBlockUpdater + 1
    /\ listenerRoutines' = [listenerRoutines EXCEPT ![k].pc = "done"]
    /\ UNCHANGED <<listenPorts, servers, errChan, adBlockUpdater, sab, stopper, nonListenVars>>

ListenerRoutine(k) ==
    ListenerStart(k) \/ ListenerReturn(k) \/ ListenerSend(k) \/ ListenerSignal(k)

\* A loop that never ends
LoopNeverDone(i, numListeners) == FALSE

\* i < numListeners is false
LoopDone(i, numListeners) == ~(i < numListeners)

\* An error that is taken for none
ReceivedErrorNever(err) == FALSE

\* err != nil
ReceivedError(err) == err # "nil"

\* The loop of StartAndBlock: it receives from errChan; the first error ends
\* it, and numListeners values without error end it too
StartAndBlockReceive ==
    /\ sab.pc = "receive"
    /\ IF LoopDone(sab.i, sab.numListeners)
       THEN /\ sab' = [sab EXCEPT !.pc = "returned", !.err = "nil"]
            /\ UNCHANGED errChan
       ELSE /\ errChan # <<>>
            /\ errChan' = Tail(errChan)
            /\ sab' = IF ReceivedError(Head(errChan))
                      THEN [sab EXCEPT !.pc = "stop tcp", !.err = Head(errChan)]
                      ELSE [sab EXCEPT !.i = @ + 1]
    /\ UNCHANGED <<listenPorts, servers, listenerRoutines, stopAdBlockUpdater, adBlockUpdater,
                   stopper, nonListenVars>>

\* Stop of a server: a listening server is told to stop; whether a server
\* that has not started to listen will still listen is not settled
ServerStop(srv, heeded) ==
    [srv EXCEPT !.stopCalls = IF @ < MaxStops + 1 THEN @ + 1 ELSE @,
                !.stopped = IF srv.state = "new" THEN @ \/ heeded ELSE TRUE]

\* Daemon.Stop, called by StartAndBlock after an error
StartAndBlockStop ==
    /\ sab.pc \in {"stop tcp", "stop udp"}
    /\ \E heeded \in BOOLEAN :
          LET k == IF sab.pc = "stop tcp" THEN "tcp" ELSE "udp"
          IN  servers' = [servers EXCEPT ![k] = ServerStop(@, heeded)]
    /\ sab' = [sab EXCEPT !.pc = IF sab.pc = "stop tcp" THEN "stop udp" ELSE "returned"]
    /\ UNCHANGED <<listenPorts, listenerRoutines, errChan, stopAdBlockUpdater, adBlockUpdater,
                   stopper, nonListenVars>>

StartAndBlock == StartAndBlockEnter \/ StartAndBlockReceive \/ StartAndBlockStop

\* Every configured listener listens and StartAndBlock waits for them
DaemonRunning ==
    /\ listenPorts # {}
    /\ sab.pc = "receive"
    /\ \A k \in listenPorts : servers[k].state = "listening"

\* Daemon.Stop, called from outside
StopEnter ==
    /\ stopper.pc = "idle"
    /\ stopper.calls < MaxStops
    /\ stopper' = [stopper EXCEPT !.pc = "stop tcp", !.calls = @ + 1,
                                  !.sawRunning = @ \/ DaemonRunning]
    /\ UNCHANGED <<listenPorts, servers, listenerRoutines, errChan, stopAdBlockUpdater,
                   adBlockUpdater, sab, nonListenVars>>

StopServers ==
    /\ stopper.pc \in {"stop tcp", "stop udp"}
    /\ \E heeded \in BOOLEAN :
          LET k == IF stopper.pc = "stop tcp" THEN "tcp" ELSE "udp"
          IN  servers' = [servers EXCEPT ![k] = ServerStop(@, heeded)]
    /\ stopper' = [stopper EXCEPT !.pc = IF stopper.pc = "stop tcp" THEN "stop udp" ELSE "idle"]
    /\ UNCHANGED <<listenPorts, listenerRoutines, errChan, stopAdBlockUpdater, adBlockUpdater,
                   sab, nonListenVars>>

Stop == StopEnter \/ StopServers

\* Daemon.Stop, called from outside once
StopOnce == Stop /\ stopper'.calls <= 1

(***************************************************************************)
(* lalog: ByteLogWriter, a ring buffer of the latest bytes                 *)
(***************************************************************************)
\* The capacity the tests use
TestCapacity == 5

\* The first byte of the first chunk; every later byte is the one before it
\* plus one, modulo 10, as in the tests
ChunkStarts == {0, 7}

Chunk(start, len) == [i \in 1..len |-> (start + i - 1) % 10]

\* NewByteLogWriter
LogNew(capacity) ==
    /\ maxBytes = capacity
    /\ latestBuf = [i \in 1..capacity |-> 0]
    /\ latestPos = 0
    /\ everFull = FALSE
    /\ logHistory = <<>>

LogIdle == LogNew(1)

\* The buffer after the bytes of p went into it one after the other, the
\* position going back to the start at the end of the buffer
RECURSIVE CopyIn(_, _, _)
CopyIn(ring, p, capacity) ==
    IF p = <<>> THEN ring
    ELSE CopyIn([buf |-> [ring.buf EXCEPT ![ring.pos + 1] = Head(p)],
                 pos |-> (ring.pos + 1) % capacity,
                 full |-> ring.full \/ ring.pos + 1 = capacity],
                Tail(p), capacity)

\* Write: of a chunk longer than the buffer only the last MaxBytes bytes are
\* copied
ByteLogWrite ==
    \E len \in 0..(MaxLogged - Len(logHistory)),
       start \in IF logHistory = <<>> THEN ChunkStarts
                 ELSE {(logHistory[Len(logHistory)] + 1) % 10} :
        LET p == Chunk(start, len)
            kept == IF Len(p) > maxBytes THEN SubSeq(p, Len(p) - maxBytes + 1, Len(p)) ELSE p
            ring == CopyIn([buf |-> latestBuf, pos |-> latestPos, full |-> everFull], kept, maxBytes)
        IN  /\ Len(logHistory) < MaxLogged
            /\ latestBuf' = ring.buf
            /\ latestPos' = ring.pos
            /\ everFull' = ring.full
            /\ logHistory' = logHistory \o p
            /\ UNCHANGED <<maxBytes, nonLogVars>>

\* The buffer as it lies
RetrieveUnturned(buf, pos, full) == IF full THEN buf ELSE SubSeq(buf, 1, pos)

\* Retrieve(false): the bytes from the oldest to the latest
Retrieve(buf, pos, full) ==
    IF full THEN SubSeq(buf, pos + 1, Len(buf)) \o SubSeq(buf, 1, pos)
    ELSE SubSeq(buf, 1, pos)

(***************************************************************************)
(* sockd: two callers of Write on one TCPCipherConnection                  *)
(***************************************************************************)
\* The pipe from the destination to the client, and WriteRand called by the
\* pipe from the client to the destination
Callers == {"down", "rand"}

CallerIdle == [pc |-> "idle", len |-> 0, cipherData |-> <<>>]

SerialIdle ==
    /\ connMutex = "free"
    /\ connStream = FALSE
    /\ connPos = 0
    /\ ivDraws = 0
    /\ connWire = <<>>
    /\ callers = [c \in Callers |-> CallerIdle]

\* A mutex that is never held
ConnMutexIgnored(mutex) == TRUE

\* conn.mutex.Lock() returns
ConnMutexFree(mutex) == mutex = "free"

\* Write, line 220: the caller, with a buffer of len bytes, takes the mutex
CallLock(c) ==
    /\ callers[c].pc = "idle"
    /\ ConnMutexFree(connMutex)
    /\ \E len \in 1..MaxReadLen :
          /\ connPos + len <= MaxPlain
          /\ callers' = [callers EXCEPT ![c] = [pc |-> "init", len |-> len, cipherData |-> <<>>]]
    /\ connMutex' = c
    /\ UNCHANGED <<connStream, connPos, ivDraws, connWire, nonSerialVars>>

\* Write, lines 224-236: the IV is drawn if there is no encryption stream
\* yet, and goes to the head of cipherData
CallInit(c) ==
    /\ callers[c].pc = "init"
    /\ IF connStream
       THEN /\ callers' = [callers EXCEPT ![c].pc = "encrypt"]
            /\ UNCHANGED <<connStream, ivDraws>>
       ELSE /\ connStream' = TRUE
            /\ ivDraws' = ivDraws + 1
            /\ callers' = [callers EXCEPT ![c].pc = "encrypt",
                              ![c].cipherData = [i \in 1..IVLength |->
                                                    [kind |-> "iv", pos |-> i - 1, by |-> c]]]
    /\ UNCHANGED <<connMutex, connPos, connWire, nonSerialVars>>

\* Write, line 238: Encrypt consumes len(buf) bytes of the keystream
CallEncrypt(c) ==
    /\ callers[c].pc = "encrypt"
    /\ callers' = [callers EXCEPT ![c].pc = "write",
                      ![c].cipherData = @ \o [i \in 1..callers[c].len |->
                                                 [kind |-> "ct", pos |-> connPos + i - 1, by |-> c]]]
    /\ connPos' = connPos + callers[c].len
    /\ UNCHANGED <<connMutex, connStream, ivDraws, connWire, nonSerialVars>>

\* Write, line 239: conn.Conn.Write takes the first n bytes of cipherData
CallWrite(c) ==
    /\ callers[c].pc = "write"
    /\ \E n \in 0..Len(callers[c].cipherData) :
          connWire' = connWire \o SubSeq(callers[c].cipherData, 1, n)
    /\ callers' = [callers EXCEPT ![c].pc = "unlock"]
    /\ UNCHANGED <<connMutex, connStream, connPos, ivDraws, nonSerialVars>>

\* Write, line 247
CallUnlock(c) ==
    /\ callers[c].pc = "unlock"
    /\ connMutex' = "free"
    /\ callers' = [callers EXCEPT ![c] = CallerIdle]
    /\ UNCHANGED <<connStream, connPos, ivDraws, connWire, nonSerialVars>>

ConcurrentWrite(c) ==
    CallLock(c) \/ CallInit(c) \/ CallEncrypt(c) \/ CallWrite(c) \/ CallUnlock(c)

(***************************************************************************)
(* sockd: one call of ParseRequest                                         *)
(***************************************************************************)
\* Address types with every low nibble the switch knows, some it does not,
\* and high nibbles of all sorts
TypeBytes == {0, 1, 2, 3, 4, 5, 15, 16, 17, 19, 20, 35, 129, 243, 244, 255}

\* What follows the address type: an address and a port, a name with its
\* length and a port; whole, cut short, or too short to tell
RequestBodies ==
    {Tail(IPv4Request(1, a, p)) : a \in {<<8, 8, 8, 8>>, <<3, 0, 0, 80>>}, p \in Ports}
    \cup {Tail(IPv6Request(4, Loopback6, p)) : p \in Ports}
    \cup {Tail(DMRequest(3, n, p)) : n \in {BlockedName, <<97, 0, 98>>, <<>>}, p \in Ports}
    \cup {<<>>, <<8>>, <<8, 8, 8>>, <<2, 97>>}

ParseInputs == {<<>>} \cup {<<t>> \o body : t \in TypeBytes, body \in RequestBodies}

NotCalled == [called |-> FALSE, deadlineOK |-> TRUE, result |-> NotParsed, asked |-> 0]

ParseNew(stream) ==
    /\ parseStream = stream
    /\ parseOut = NotCalled

ParseIdle == ParseNew(<<>>)

\* The call of ParseRequest on the connection
ParseCall ==
    /\ ~parseOut.called
    /\ \E deadlineOK \in BOOLEAN :
          parseOut' = [called |-> TRUE, deadlineOK |-> deadlineOK,
                       result |-> ParseRequest(parseStream, deadlineOK),
                       asked |-> BytesAsked(parseStream, deadlineOK)]
    /\ UNCHANGED <<parseStream, nonParseVars>>

(***************************************************************************)
(* passwdserver: the size of the ramdisk an unlock attempt asks for        *)
(***************************************************************************)
MiB == 1048576

\* The sizes of the archive file, in bytes: around every half MiB up to
\* MaxArchiveHalfMiB of them
ArchiveSizes ==
    {s \in {k * (MiB \div 2) + d : k \in 0..MaxArchiveHalfMiB, d \in {-1, 0, 1}} : s >= 0}

\* web_server.go line 173: Start has set ws.archiveFileSize
SizeNew(size) == ramdiskAsk = [archiveFileSize |-> size, asked |-> FALSE, sizeMB |-> 0]

SizeIdle == SizeNew(0)

\* Line 123: ws.archiveFileSize/1048576*2 + 8, in Go's integer arithmetic,
\* left to right
RamdiskSizeMB(archiveFileSize) == (archiveFileSize \div 1048576) * 2 + 8

\* pageHandler, line 123: the call of encarchive.MakeRamdisk
MakeRamdiskCall ==
    /\ ~ramdiskAsk.asked
    /\ ramdiskAsk' = [ramdiskAsk EXCEPT !.asked = TRUE,
                                        !.sizeMB = RamdiskSizeMB(ramdiskAsk.archiveFileSize)]
    /\ UNCHANGED nonSizeVars

(***************************************************************************)
(* misc: InvokeProgram (part_003, lines 213-279) and the callback of its   *)
(* timer. The timer fires at any moment once it is armed. proc.Start is    *)
(* two steps, as in os/exec: the program is started, then proc.Process is  *)
(* assigned; the callback reads proc.Process with no synchronisation, so   *)
(* it sees what was assigned before it ran.                                *)
(***************************************************************************)
\* The time limits of the callers: none is a whole number of minutes but 600
TimeoutSecs == {-1, 0, 1, 600}

InvokeNone == [pc |-> "none", timeoutSec |-> 1, err |-> "nil", timedOut |-> FALSE,
               processQuit |-> FALSE, timeOutTimer |-> "none", procProcess |-> "nil",
               program |-> "none", status |-> "nil", killed |-> FALSE, limitHit |-> "no", logger |-> "none"]

\* The call InvokeProgram(envVars, timeoutSec, program, args...)
InvokeNew(timeoutSec) ==
    invocation = [InvokeNone EXCEPT !.pc = "called", !.timeoutSec = timeoutSec]

InvokeIdle == invocation = InvokeNone

\* Line 214
TimeLimitInvalid(timeoutSec) == timeoutSec < 1

\* Lines 214-246: the test of the time limit, the environment, and
\* time.AfterFunc
InvokeEnter ==
    /\ invocation.pc = "called"
    /\ invocation' =
         IF TimeLimitInvalid(invocation.timeoutSec)
         THEN [invocation EXCEPT !.pc = "returned", !.err = "invalid time limit"]
         ELSE [invocation EXCEPT !.pc = "start", !.timeOutTimer = "armed"]
    /\ UNCHANGED nonInvokeVars

\* timeOutTimer.Stop(): a timer that has not fired will not; a callback
\* that is running goes on
TimerStopped(timer) == IF timer = "armed" THEN "stopped" ELSE timer

\* Lines 248-251: proc.Start fails, or starts the program
ProcStart ==
    /\ invocation.pc = "start"
    /\ \/ invocation' = [invocation EXCEPT !.pc = "returned", !.err = "start error",
                             !.timeOutTimer = TimerStopped(@)]
       \/ invocation' = [invocation EXCEPT !.pc = "assign", !.program = "running"]
    /\ UNCHANGED nonInvokeVars

\* Line 248, the end of proc.Start: proc.Process is the started process
ProcAssign ==
    /\ invocation.pc = "assign"
    /\ invocation' = [invocation EXCEPT !.procProcess = "set",
                         !.pc = IF invocation.timeoutSec >= 10 * 60 THEN "log" ELSE "wait"]
    /\ UNCHANGED nonInvokeVars

\* Lines 254-269: the goroutine that logs the time left every minute
LoggerGo ==
    /\ invocation.pc = "log"
    /\ invocation' = [invocation EXCEPT !.pc = "wait", !.logger = "running"]
    /\ UNCHANGED nonInvokeVars

\* Lines 257-266: the goroutine wakes and finds the process gone or timed out
LoggerBreak ==
    /\ invocation.logger = "running"
    /\ invocation.processQuit \/ invocation.timedOut
    /\ invocation' = [invocation EXCEPT !.logger = "done"]
    /\ UNCHANGED nonInvokeVars

\* The program exits by itself, with status 0 or not
ProgramExit ==
    /\ invocation.program = "running"
    /\ ~invocation.killed
    /\ \E status \in {"nil", "exit status 1"} :
          invocation' = [invocation EXCEPT !.program = "exited", !.status = status]
    /\ UNCHANGED nonInvokeVars

\* The program dies of the SIGKILL
ProgramDie ==
    /\ invocation.program = "running"
    /\ invocation.killed
    /\ invocation' = [invocation EXCEPT !.program = "exited", !.status = "signal: killed"]
    /\ UNCHANGED nonInvokeVars

\* Lines 271-272: proc.Wait returns once the program has exited
ProcWait ==
    /\ invocation.pc = "wait"
    /\ invocation.program = "exited"
    /\ invocation' = [invocation EXCEPT !.pc = "stop", !.err = invocation.status,
                                         !.processQuit = TRUE]
    /\ UNCHANGED nonInvokeVars

\* Line 273
TimerStop ==
    /\ invocation.pc = "stop"
    /\ invocation' = [invocation EXCEPT !.pc = "check", !.timeOutTimer = TimerStopped(@)]
    /\ UNCHANGED nonInvokeVars

\* Lines 274-278
InvokeReturn ==
    /\ invocation.pc = "check"
    /\ invocation' = [invocation EXCEPT !.pc = "returned",
                         !.err = IF invocation.timedOut THEN "time limit exceeded" ELSE @]
    /\ UNCHANGED nonInvokeVars

\* Lines 241-242: the time limit elapses and the callback starts
TimerFire ==
    /\ invocation.timeOutTimer = "armed"
    /\ invocation' = [invocation EXCEPT !.timeOutTimer = "fired", !.timedOut = TRUE,
                         !.limitHit = invocation.program]
    /\ UNCHANGED nonInvokeVars

\* Lines 243 and 282-294: the callback kills the process it finds in
\* proc.Process, if any
TimerKill ==
    /\ invocation.timeOutTimer = "fired"
    /\ invocation' =
         IF invocation.procProcess = "nil"
         THEN [invocation EXCEPT !.timeOutTimer = "done"]
         ELSE [invocation EXCEPT !.timeOutTimer = "reaping",
                                 !.killed = (invocation.program = "running")]
    /\ UNCHANGED nonInvokeVars

\* Line 295: KillProcess waits for the process
TimerReap ==
    /\ invocation.timeOutTimer = "reaping"
    /\ invocation.program = "exited"
    /\ invocation' = [invocation EXCEPT !.timeOutTimer = "done"]
    /\ UNCHANGED nonInvokeVars

InvokeProgram ==
    InvokeEnter \/ ProcStart \/ ProcAssign \/ LoggerGo \/ ProcWait \/ TimerStop \/ InvokeReturn

TimerCallback == TimerFire \/ TimerKill \/ TimerReap

(***************************************************************************)
(* dnsd: one call of IsInBlacklist, one turn of its loops at a time        *)
(***************************************************************************)
\* The goroutine that calls IsInBlacklist
StripCaller == "s1"

\* The names the call is made with: those of the lookups (a leading dot, a
\* trailing dot, mixed case, 256 characters) and " evil.com", "a..evil.com",
\* "a.io", "93.184.216.34", "x.y.z", "a.b.co", "..", ".", "" and a name of
\* 255 characters
StripNames ==
    ReaderNames \cup
    { <<32, 101, 118, 105, 108, 46, 99, 111, 109>>,
      <<97, 46, 46, 101, 118, 105, 108, 46, 99, 111, 109>>,
      <<97, 46, 105, 111>>,
      BlockedIP,
      <<120, 46, 121, 46, 122>>,
      <<97, 46, 98, 46, 99, 111>>,
      <<46, 46>>,
      <<46>>,
      <<>>,
      [i \in 1..255 |-> 97] }

StripNew ==
    [pc |-> "idle", input |-> <<>>, nameOrIP |-> <<>>, blackListCandidates |-> <<>>,
     consulted |-> FALSE, result |-> "none"]

StripIdle == stripper = StripNew

RUnlockForgotten(mutex, r) == mutex

\* sync.RWMutex.RUnlock
RUnlock(mutex, r) == [mutex EXCEPT !.readers = @ \ {r}]

\* Lines 371-384: the RLock, the test of the length, and the first candidate
IsInBlacklistEnter ==
    /\ stripper.pc = "idle"
    /\ CanRLock(blackListMutex)
    /\ blackListMutex' = [blackListMutex EXCEPT !.readers = @ \cup {StripCaller}]
    /\ \E nameOrIP \in StripNames :
          stripper' =
              IF Len(nameOrIP) > 255
              THEN [StripNew EXCEPT !.pc = "unlock", !.input = nameOrIP, !.result = TRUE]
              ELSE LET name == ToLower(TrimSpace(nameOrIP))
                   IN  [StripNew EXCEPT !.pc = "strip", !.input = nameOrIP,
                                        !.nameOrIP = name,
                                        !.blackListCandidates = <<name>>]
    /\ UNCHANGED <<blackListUpdating, updaters, lookups, nonStripVars>>

\* Lines 385-397: one turn of the loop that strips the leftmost label
IsInBlacklistStrip ==
    LET index == IndexByte(stripper.nameOrIP, 46)
        rest == SubSeq(stripper.nameOrIP, index + 2, Len(stripper.nameOrIP))
    IN  /\ stripper.pc = "strip"
        /\ stripper' =
              IF index < 1 \/ index = Len(stripper.nameOrIP) - 1
              THEN [stripper EXCEPT !.pc = "test"]
              ELSE IF Len(rest) < 4
              THEN [stripper EXCEPT !.nameOrIP = rest]
              ELSE [stripper EXCEPT !.nameOrIP = rest,
                                    !.blackListCandidates = Append(@, rest)]
        /\ UNCHANGED <<dnsVars, nonStripVars>>

\* Lines 399-404: one turn of the loop over the candidates
IsInBlacklistTest ==
    /\ stripper.pc = "test"
    /\ stripper' =
          IF Head(stripper.blackListCandidates) \in blackList
          THEN [stripper EXCEPT !.pc = "unlock", !.consulted = TRUE, !.result = TRUE]
          ELSE IF Len(stripper.blackListCandidates) = 1
          THEN [stripper EXCEPT !.pc = "unlock", !.consulted = TRUE, !.result = FALSE,
                                !.blackListCandidates = <<>>]
          ELSE [stripper EXCEPT !.consulted = TRUE, !.blackListCandidates = Tail(@)]
    /\ UNCHANGED <<dnsVars, nonStripVars>>

\* Line 372, deferred: the RUnlock when the function returns
IsInBlacklistReturn ==
    /\ stripper.pc = "unlock"
    /\ blackListMutex' = RUnlock(blackListMutex, StripCaller)
    /\ stripper' = [stripper EXCEPT !.pc = "returned"]
    /\ UNCHANGED <<blackListUpdating, updaters, lookups, nonStripVars>>

IsInBlacklistCall ==
    IsInBlacklistEnter \/ IsInBlacklistStrip \/ IsInBlacklistTest \/ IsInBlacklistReturn

\* No smaller component has started
ServicesIdle == AllowIdle /\ CacheIdle /\ ListenIdle /\ LogIdle /\ ReturnIdle
                /\ SerialIdle /\ ParseIdle /\ SizeIdle /\ InvokeIdle /\ UpdaterLoopIdle /\ StripIdle

(***************************************************************************)
(* Properties of the latest TXT commands                                   *)
(***************************************************************************)
\* C24: a TXT command query made less than TextCommandReplyTTL seconds after
\* the run of the command processor for its text gets the result of that run
\* without a new run; one made more than TextCommandReplyTTL seconds after it
\* causes a new run.
CachedWithinTTL ==
    txtReply.lastRun.at >= 0 =>
        LET elapsed == txtReply.at - txtReply.lastRun.at
        IN  /\ elapsed < TextCommandReplyTTL =>
                  ~txtReply.invoked /\ txtReply.result = txtReply.lastRun.result
            /\ elapsed > TextCommandReplyTTL => txtReply.invoked

\* C24 witness: a repeated query got the result of the run made two seconds
\* before, which a new run would not have given
RepeatServedWitness ==
    /\ txtReply.lastRun.at >= 0
    /\ txtReply.at = txtReply.lastRun.at + 2
    /\ ~txtReply.invoked
    /\ txtReply.result # Process(txtReply.text, txtReply.at)

(***************************************************************************)
(* Properties of StartAndBlock and Stop                                    *)
(***************************************************************************)
\* StartAndBlock has returned the error of a listener after Stop was called
\* on both servers, or nil after every configured listener returned nil
ReturnedWhatListenersGave ==
    /\ sab.pc = "returned" /\ sab.err # "nil" =>
          /\ \E k \in listenPorts :
                servers[k].state = "returned" /\ listenerRoutines[k].err = sab.err
          /\ \A k \in Listeners : servers[k].stopCalls > 0
    /\ sab.pc = "returned" /\ sab.err = "nil" =>
          \A k \in listenPorts :
              servers[k].state = "returned" /\ listenerRoutines[k].err = "nil"

\* C25 as written: StartAndBlock has not returned before every configured
\* listener has; it returns the error of a listener after the daemon stopped
\* all listeners, and nil only when every configured listener returned nil.
BlocksUntilAllReturned ==
    /\ sab.pc = "returned" => \A k \in listenPorts : servers[k].state = "returned"
    /\ ReturnedWhatListenersGave

\* C25 amended: StartAndBlock has not returned before every configured
\* listener has returned or one of them has returned an error; it returns
\* that error after calling Stop on both servers, without waiting for the
\* other listener, and nil only when every configured listener returned nil.
BlocksUntilErrorOrAllReturned ==
    /\ sab.pc = "returned" =>
          \/ \A k \in listenPorts : servers[k].state = "returned"
          \/ \E k \in listenPorts : servers[k].state = "returned" /\ listenerRoutines[k].err # "nil"
    /\ ReturnedWhatListenersGave

\* C25 witness: StartAndBlock has returned the error of one listener while
\* the other one listens
ReturnedErrorWitness ==
    /\ sab.pc = "returned"
    /\ sab.err = "listen failed"
    /\ \E k \in listenPorts : servers[k].state = "listening"

\* StartAndBlock has returned nil
ReturnedNil == sab.pc = "returned" /\ sab.err = "nil"

LastBytes(history, n) ==
    IF Len(history) <= n THEN history
    ELSE SubSeq(history, Len(history) - n + 1, Len(history))

WriteReturnsPlainCount ==
    lastWrite.len >= 0 =>
        /\ lastWrite.n <= lastWrite.len
        /\ ~lastWrite.failed => lastWrite.n = lastWrite.len

(***************************************************************************)
(* Properties of the concurrent calls of Write                             *)
(***************************************************************************)
\* C29: at most one caller is between the Lock and the Unlock of Write; the
\* ciphertext on the wire is in the order of its keystream positions; and
\* InitEncryptionStream was called once at most, the IV bytes on the wire are
\* in front of all ciphertext and come from one call.
WritesSerialized ==
    /\ Cardinality({c \in Callers : callers[c].pc # "idle"}) <= 1
    /\ \A i, j \in 1..Len(connWire) :
          i < j =>
             /\ connWire[j].kind = "iv" => connWire[i].kind = "iv" /\ connWire[i].by = connWire[j].by
             /\ connWire[i].kind = "ct" /\ connWire[j].kind = "ct" => connWire[i].pos < connWire[j].pos
    /\ ivDraws <= 1

\* C29 witness: both callers have ciphertext on the wire, after the IV of
\* one of them
BothWroteWitness ==
    /\ \A c \in Callers : \E i \in 1..Len(connWire) : connWire[i].kind = "ct" /\ connWire[i].by = c
    /\ Len(connWire) > IVLength
    /\ connWire[IVLength].kind = "iv"
    /\ ivDraws = 1

(***************************************************************************)
(* Properties of ParseRequest                                              *)
(***************************************************************************)
\* The low nibble of the address type of the stream
LowNibble == parseStream[1] % 16

\* The stream with the high nibble of its address type cleared
LowNibbleStream == <<LowNibble>> \o Tail(parseStream)

\* The port is in the two bytes before index last, the high byte first
PortAt(last) == parseStream[last - 1] * 256 + parseStream[last]

\* The stream holds a whole IPv4, IPv6 or domain request
WholeV4 == Len(parseStream) >= 7
WholeV6 == Len(parseStream) >= 19
WholeDM == Len(parseStream) >= 2 /\ Len(parseStream) >= 4 + parseStream[2]

\* C30: what ParseRequest returns and how far it reads depend on the low
\* nibble of the address type only; 1 selects the IPv4 encoding, 4 the IPv6
\* one, 3 the domain one; any other low nibble is an error with the address
\* type the only byte read; port 0 and a NUL byte in the destination are
\* errors.
ParsedByLowNibble ==
    parseOut.called /\ parseOut.deadlineOK /\ parseStream # <<>> =>
        LET out == parseOut.result
        IN  /\ out = ParseRequest(LowNibbleStream, TRUE)
            /\ parseOut.asked = BytesAsked(LowNibbleStream, TRUE)
            /\ LowNibble = 1 =>
                  /\ parseOut.asked = 7
                  /\ WholeV4 /\ PortAt(7) # 0 =>
                        ~out.err /\ out.destIP = SubSeq(parseStream, 2, 5)
                  /\ WholeV4 /\ PortAt(7) = 0 => out.err
            /\ LowNibble = 4 =>
                  /\ parseOut.asked = 19
                  /\ WholeV6 /\ PortAt(19) # 0 =>
                        ~out.err /\ out.destIP = SubSeq(parseStream, 2, 17)
                  /\ WholeV6 /\ PortAt(19) = 0 => out.err
            /\ LowNibble = 3 /\ WholeDM =>
                  LET name == SubSeq(parseStream, 3, 2 + parseStream[2])
                      last == 4 + parseStream[2]
                  IN  /\ parseOut.asked = last
                      /\ out.err <=> PortAt(last) = 0 \/ 0 \in Range(name)
                      /\ ~out.err => out.destNoPort = name
            /\ LowNibble \notin {1, 3, 4} => out.err /\ parseOut.asked = 1

\* C30 witness: an address type with the low nibble of a domain and a high
\* nibble of 15 was parsed as a domain
HighNibbleWitness ==
    /\ parseOut.called /\ parseOut.deadlineOK
    /\ parseStream # <<>>
    /\ parseStream[1] = 243
    /\ ~parseOut.result.err
    /\ parseOut.result.destNoPort = BlockedName
    /\ parseOut.asked = Len(parseStream)

\* C33: ReadWithRetry and WriteWithRetry make a further attempt only after a
\* transient deadline error; an error that is not transient (end of stream,
\* connection closed or reset) ends the helper after that attempt without
\* retrying. The error of an attempt on a closed connection is not
\* transient: after it the helper is no longer in its loop.
RetriesOnlyTransient ==
    \A p \in PipeNames :
        pipes[p].last = "deadline" => pipes[p].pc \notin {"read", "write"}

\* InvokeProgram was given a time limit below 1: no process, and an error
InvalidLimitStartsNothing ==
    TimeLimitInvalid(invocation.timeoutSec) =>
        /\ invocation.program = "none"
        /\ invocation.timeOutTimer = "none"
        /\ invocation.pc = "returned" => invocation.err = "invalid time limit"

\* A call with a valid time limit returns
InvokeReturns ==
    (invocation.pc = "called" /\ ~TimeLimitInvalid(invocation.timeoutSec))
        ~> invocation.pc = "returned"

\* The program was running when the time limit elapsed: it is killed, unless
\* it exits by itself before the signal is sent
LateProgramKilled ==
    (invocation.limitHit = "running")
        ~> (invocation.killed \/ invocation.program = "exited")

\* The program was running when the time limit elapsed: the error returned
\* is that of the time limit
LateProgramError ==
    (invocation.limitHit = "running" /\ invocation.pc = "returned") =>
        invocation.err = "time limit exceeded"

\* C34: InvokeProgram with timeoutSec < 1 starts no process and returns an
\* error; otherwise, under every interleaving of the timer with the start
\* and the exit of the process, InvokeProgram eventually returns, and if the
\* program has not exited when the time limit elapses the program is killed
\* and the error returned is "time limit exceeded".
InvokeReturnsAndKillsLate ==
    /\ []InvalidLimitStartsNothing
    /\ InvokeReturns
    /\ LateProgramKilled
    /\ []LateProgramError

\* The server of listener k has returned
ListenerReturned(k) == listenerRoutines[k].pc \in {"send", "signal", "done"}

\* The send of a listener goroutine on the stop channel does not block
SignalNeverBlocks ==
    \A k \in Listeners : listenerRoutines[k].pc = "signal" => stopAdBlockUpdater < 2

\* Once a listener has returned the updater returns
UpdaterEnds == (\E k \in Listeners : ListenerReturned(k)) ~> adBlockUpdater = "returned"

\* C35 as stated: once a listener has returned the updater of the blacklist
\* terminates; the sends on the stop channel never block; and the updater
\* starts at most one update after the stop signal was sent, the one that
\* was due at the moment it found the signal.
UpdaterStopsAfterOneUpdate ==
    /\ []SignalNeverBlocks
    /\ UpdaterEnds
    /\ [](updaterLoop.runsAfterStop <= 1)

\* C35, amended: once a listener has returned the updater of the blacklist
\* terminates; the sends on the stop channel never block; and the updater
\* starts at most one update after the stop signal was sent, unless an
\* update that ended after the signal had outlasted the update interval,
\* which leaves the timer ready again beside the signal.
UpdaterStopsAfterDueUpdates ==
    /\ []SignalNeverBlocks
    /\ UpdaterEnds
    /\ [](~updaterLoop.lateAfterStop => updaterLoop.runsAfterStop <= 1)

\* C35 witness: both listeners have sent their stop signal, the updater
\* started one update with the signal there and then returned
StoppedAfterUpdateWitness ==
    /\ \A k \in Listeners : listenerRoutines[k].pc = "done"
    /\ adBlockUpdater = "returned"
    /\ updaterLoop.runsAfterStop = 1
    /\ ~updaterLoop.lateAfterStop

\* C36: in a proxied session, once either of the two pipes has terminated
\* (read error, write error or lock-down), both the client connection and
\* the destination connection are closed in the end and both pipes
\* terminate, every blocking read and write returning within its deadline.
OnePipeEndsSession ==
    (\E p \in PipeNames : pipes[p].pc = "returned")
        ~> (PipesDone /\ clientConn = "closed" /\ destConn = "closed")

\* C36 witness: a write to the destination failed and ended the up pipe;
\* the down pipe then found the destination closed, gave up after five
\* reads and closed the client connection
SessionEndedWitness ==
    /\ ~lockDown
    /\ pipes["up"].exit = "writeErr"
    /\ pipes["down"].exit = "readErr"
    /\ pipes["down"].last = "deadline"
    /\ pipes["down"].attempts = 5
    /\ PipesDone
    /\ clientConn = "closed" /\ destConn = "closed"

\* The outcomes of an unlock attempt that failed
FailedOutcomes == {"ramdisk_err", "tempfile_err", "extract_err"}

\* C37: a failed unlock attempt (ramdisk creation, temp-file creation or
\* Extract failure) leaves alreadyUnlocked false, starts no
\* LaunchMainProgram and gives the mutex back, so that a later POST with
\* the correct password can still succeed; once alreadyUnlocked is true,
\* ramdiskDir is never changed again, and it is the ramdisk of the attempt
\* that succeeded.
FailedAttemptKeepsLocked ==
    /\ [][\A r \in Requests :
            (reqs[r].outcome = "none" /\ reqs'[r].outcome \in FailedOutcomes) =>
                /\ ~alreadyUnlocked'
                /\ launches' = launches /\ lmpc' = lmpc
                /\ handlerMutex' = 0]_vars
    /\ [][alreadyUnlocked => alreadyUnlocked' /\ ramdiskDir' = ramdiskDir]_vars
    /\ [](alreadyUnlocked =>
            \E r \in Requests : reqs[r].outcome = "success" /\ reqs[r].ramdisk = ramdiskDir)

\* C37 witness: an attempt failed in Extract, a later attempt succeeded on
\* a ramdisk of its own, and LaunchMainProgram has changed into it
UnlockedAfterFailureWitness ==
    \E r1, r2 \in Requests :
        /\ reqs[r1].outcome = "extract_err"
        /\ reqs[r2].outcome = "success"
        /\ reqs[r2].ramdisk > reqs[r1].ramdisk
        /\ ramdiskDir = reqs[r2].ramdisk
        /\ lmpc = "command"

\* Ceiling of a / b
CeilDiv(a, b) == IF a % b = 0 THEN a \div b ELSE a \div b + 1

\* C32: for every archive size in bytes, the ramdisk size in MB an unlock
\* attempt asks for is ceil(2 * archiveSize / 1048576) + 8.
RamdiskSizeIsCeiling ==
    ramdiskAsk.asked =>
        ramdiskAsk.sizeMB = CeilDiv(2 * ramdiskAsk.archiveFileSize, 1048576) + 8

(***************************************************************************)
(* Properties of one call of IsInBlacklist                                 *)
(***************************************************************************)
\* "x.y.z": every suffix is shorter than 4 characters
XYZ == <<120, 46, 121, 46, 122>>

\* The loops folded into CandidateList and IsInBlacklist give what the turns
\* give one by one
TurnsAgreeWithCandidates ==
    /\ stripper.pc = "test" /\ ~stripper.consulted =>
          stripper.blackListCandidates = CandidateList(ToLower(TrimSpace(stripper.input)))
    /\ stripper.pc = "returned" => stripper.result = IsInBlacklist(stripper.input)

\* C38: IsInBlacklist terminates for every input string (names with leading,
\* trailing or consecutive dots, suffixes shorter than 4 characters, IP
\* addresses): the call returns, each turn of the stripping loop that stays
\* in the loop leaves a shorter nameOrIP, each turn of the candidate loop
\* leaves fewer candidates. The caller holds the read lock exactly from the
\* RLock to the return. For an input longer than 255 characters the result
\* is true and the set was never consulted.
IsInBlacklistTerminates ==
    /\ <>(stripper.pc = "returned")
    /\ [][(stripper.pc = "strip" /\ stripper'.pc = "strip") =>
             Len(stripper'.nameOrIP) < Len(stripper.nameOrIP)]_vars
    /\ [][(stripper.pc = "test" /\ stripper'.pc = "test") =>
             Len(stripper'.blackListCandidates) < Len(stripper.blackListCandidates)]_vars
    /\ [](StripCaller \in blackListMutex.readers <=>
             stripper.pc \in {"strip", "test", "unlock"})
    /\ []((Len(stripper.input) > 255 /\ stripper.pc # "idle") =>
             ~stripper.consulted /\ stripper.result = TRUE)

\* C38 witness: the call with "x.y.z" has returned false after two turns that
\* stripped a label and appended nothing, and the read lock is free
ShortSuffixesReturnedWitness ==
    /\ stripper.pc = "returned"
    /\ stripper.input = XYZ
    /\ stripper.nameOrIP = <<122>>
    /\ stripper.consulted
    /\ stripper.result = FALSE
    /\ blackListMutex.readers = {}

(***************************************************************************)
(* Properties of the refresh of the public IP                              *)
(***************************************************************************)
\* Requester q makes the call of inet.GetPublicIP in this step
LooksUp(q) == queries[q].pc = "getIP" /\ queries'[q].pc = "deferred"

\* C39: when several requests from non-loopback clients arrive concurrently
\* after the refresh interval has expired, the public IP is looked up at most
\* once for that interval: a lookup is made only when the recorded refresh
\* is more than PublicIPRefreshIntervalSec seconds old. And a lookup that
\* fails keeps the cached public IP, while the return of allowMyPublicIP
\* records the time of the refresh whatever the lookup gave.
LookupOncePerInterval ==
    /\ [][\A q \in Requesters :
             LooksUp(q) => RefreshDue(allowQueryLastUpdate, now)]_vars
    /\ [][\A q \in Requesters :
             LooksUp(q) => myPublicIP' = myPublicIP \/ myPublicIP' # <<>>]_vars
    /\ [][\A q \in Requesters :
             (queries[q].pc = "deferred" /\ queries'[q].pc # "deferred") =>
                 allowQueryLastUpdate' = now /\ myPublicIP' = myPublicIP]_vars

\* The parts of C39 about a lookup that fails, alone
FailedLookupKeepsIP ==
    /\ [][\A q \in Requesters :
             LooksUp(q) => myPublicIP' = myPublicIP \/ myPublicIP' # <<>>]_vars
    /\ [][\A q \in Requesters :
             (queries[q].pc = "deferred" /\ queries'[q].pc # "deferred") =>
                 allowQueryLastUpdate' = now /\ myPublicIP' = myPublicIP]_vars

(***************************************************************************)
(* Specifications                                                          *)
(***************************************************************************)
UnlockInit ==
    /\ \E stale \in {{}, {StaleRamdisk}} : UnlockBoot(stale)
    /\ CipherIdle
    /\ ProxyIdle(<<>>, {})
    /\ PipeIdle
    /\ DnsIdle
    /\ ServicesIdle

UnlockNext ==
    \/ \E r \in Requests : Accept(r)
    \/ \E r \in Requests : ServeMux(r)
    \/ \E r \in Requests : PageHandlerHeaders(r)
    \/ \E r \in Requests : PageHandlerLock(r)
    \/ \E r \in Requests : PageHandlerCheck(r)
    \/ \E r \in Requests : PageHandlerMakeRamdisk(r)
    \/ \E r \in Requests : PageHandlerTempFile(r)
    \/ \E r \in Requests : PageHandlerExtract(r)
    \/ LMStart
    \/ LMShutdown
    \/ LMExecutable
    \/ LMChdir
    \/ LMCommand
    \/ LMWait
    \/ LMClean
    \/ LMFatalExit
    \/ LMAbort

UnlockSpec == UnlockInit /\ [][UnlockNext]_vars

CipherInit ==
    /\ UnlockBoot({})
    /\ CipherIdle
    /\ ProxyIdle(<<>>, {})
    /\ PipeIdle
    /\ DnsIdle
    /\ ServicesIdle

CipherNext ==
    \/ Write
    \/ ReadCall
    \/ ReadIV
    \/ ReadData

CipherSpec == CipherInit /\ [][CipherNext]_vars

ProxyInit ==
    /\ UnlockBoot({})
    /\ CipherIdle
    /\ \E stream \in ClientStreams, bl \in BlackLists : ProxyIdle(stream, bl)
    /\ PipeIdle
    /\ DnsIdle
    /\ ServicesIdle

ProxyNext == HandleRequest \/ WriteRandAndClose \/ Dial

ProxySpec == ProxyInit /\ [][ProxyNext]_vars

\* The handler's goroutine is scheduled, and each of its blocking calls has a
\* deadline or a timeout.
ProxyLiveSpec == ProxySpec /\ WF_vars(ProxyNext)

PipeInit ==
    /\ UnlockBoot({})
    /\ \E up, down \in 0..MaxRelay : up + down <= MaxRelay /\ PipeStart(up, down)
    /\ DnsIdle
    /\ ServicesIdle

PipeNext == LockDown \/ \E p \in PipeNames : PipeStep(p)

\* Each pipe runs in a goroutine of its own, and each of its reads and
\* writes has a deadline.
PipeSpec ==
    PipeInit /\ [][PipeNext]_vars /\ WF_vars(PipeStep("up")) /\ WF_vars(PipeStep("down"))

DnsInit ==
    /\ UnlockBoot({})
    /\ CipherIdle
    /\ PipeIdle
    /\ DnsStart({})
    /\ ServicesIdle

DnsNext ==
    \/ \E u \in Updaters : UpdateBlackList(u)
    \/ \E r \in Readers : Lookup(r)

DnsSpec == DnsInit /\ [][DnsNext]_vars

\* The lookups alone, over the blacklists an update may have left
MatchInit ==
    /\ UnlockBoot({})
    /\ CipherIdle
    /\ PipeIdle
    /\ \E bl \in InstalledLists : DnsStart(bl)
    /\ ServicesIdle

MatchNext == \E r \in Readers : Lookup(r)

MatchSpec == MatchInit /\ [][MatchNext]_vars

AllowInit ==
    /\ UnlockBoot({})
    /\ CipherIdle
    /\ ProxyIdle(<<>>, {})
    /\ PipeIdle
    /\ DnsIdle
    /\ StripIdle
    /\ UpdaterLoopIdle
    /\ InvokeIdle
    /\ SizeIdle
    /\ \E prefixes \in PrefixConfigs : AllowNew(prefixes)
    /\ CacheIdle
    /\ ListenIdle
    /\ LogIdle
    /\ ReturnIdle
    /\ SerialIdle
    /\ ParseIdle

AllowNext ==
    \/ Initialise
    \/ Tick
    \/ \E q \in Requesters : CheckAllowClientIP(q)

AllowSpec == AllowInit /\ [][AllowNext]_vars

CacheInit ==
    /\ UnlockBoot({})
    /\ CipherIdle
    /\ ProxyIdle(<<>>, {})
    /\ PipeIdle
    /\ DnsIdle
    /\ StripIdle
    /\ UpdaterLoopIdle
    /\ InvokeIdle
    /\ SizeIdle
    /\ AllowIdle
    /\ CacheIdle
    /\ ListenIdle
    /\ LogIdle
    /\ ReturnIdle
    /\ SerialIdle
    /\ ParseIdle

CacheNext == CacheTick \/ \E text \in CommandTexts : TXTCommandQuery(text)

CacheSpec == CacheInit /\ [][CacheNext]_vars

ListenInit ==
    /\ UnlockBoot({})
    /\ CipherIdle
    /\ ProxyIdle(<<>>, {})
    /\ PipeIdle
    /\ DnsIdle
    /\ StripIdle
    /\ UpdaterLoopIdle
    /\ InvokeIdle
    /\ SizeIdle
    /\ AllowIdle
    /\ CacheIdle
    /\ \E ports \in SUBSET Listeners : ListenNew(ports)
    /\ LogIdle
    /\ ReturnIdle
    /\ SerialIdle
    /\ ParseIdle

ListenNext ==
    \/ StartAndBlock
    \/ \E k \in Listeners : ListenerRoutine(k)
    \/ UpdaterReturn
    \/ Stop

ListenSpec == ListenInit /\ [][ListenNext]_vars

\* Every goroutine that can take a step takes it in the end; nothing makes
\* StartAndBlock or Stop be called
ListenLiveSpec ==
    /\ ListenSpec
    /\ WF_vars(StartAndBlockReceive)
    /\ WF_vars(StartAndBlockStop)
    /\ WF_vars(StopServers)
    /\ WF_vars(UpdaterReturn)
    /\ \A k \in Listeners : WF_vars(ListenerRoutine(k))

LogInit ==
    /\ UnlockBoot({})
    /\ CipherIdle
    /\ ProxyIdle(<<>>, {})
    /\ PipeIdle
    /\ DnsIdle
    /\ StripIdle
    /\ UpdaterLoopIdle
    /\ InvokeIdle
    /\ SizeIdle
    /\ AllowIdle
    /\ CacheIdle
    /\ ListenIdle
    /\ \E capacity \in 1..TestCapacity : LogNew(capacity)
    /\ ReturnIdle
    /\ SerialIdle
    /\ ParseIdle

LogNext == ByteLogWrite

LogSpec == LogInit /\ [][LogNext]_vars

SerialInit ==
    /\ UnlockBoot({})
    /\ CipherIdle
    /\ ProxyIdle(<<>>, {})
    /\ PipeIdle
    /\ DnsIdle
    /\ ServicesIdle

SerialNext == \E c \in Callers : ConcurrentWrite(c)

SerialSpec == SerialInit /\ [][SerialNext]_vars

ParseInit ==
    /\ UnlockBoot({})
    /\ CipherIdle
    /\ ProxyIdle(<<>>, {})
    /\ PipeIdle
    /\ DnsIdle
    /\ StripIdle
    /\ UpdaterLoopIdle
    /\ InvokeIdle
    /\ SizeIdle
    /\ AllowIdle /\ CacheIdle /\ ListenIdle /\ LogIdle /\ ReturnIdle /\ SerialIdle
    /\ \E stream \in ParseInputs : ParseNew(stream)

ParseNext == ParseCall

ParseSpec == ParseInit /\ [][ParseNext]_vars

ReturnInit ==
    /\ UnlockBoot({})
    /\ CipherIdle
    /\ ProxyIdle(<<>>, {})
    /\ PipeIdle
    /\ DnsIdle
    /\ ServicesIdle

ReturnNext == WriteReturning

ReturnSpec == ReturnInit /\ [][ReturnNext]_vars

SizeInit ==
    /\ UnlockBoot({})
    /\ CipherIdle
    /\ ProxyIdle(<<>>, {})
    /\ PipeIdle
    /\ DnsIdle
    /\ StripIdle
    /\ UpdaterLoopIdle
    /\ InvokeIdle
    /\ AllowIdle /\ CacheIdle /\ ListenIdle /\ LogIdle /\ ReturnIdle /\ SerialIdle
    /\ ParseIdle
    /\ \E size \in ArchiveSizes : SizeNew(size)

SizeNext == MakeRamdiskCall

SizeSpec == SizeInit /\ [][SizeNext]_vars

InvokeInit ==
    /\ UnlockBoot({})
    /\ CipherIdle
    /\ ProxyIdle(<<>>, {})
    /\ PipeIdle
    /\ DnsIdle
    /\ StripIdle
    /\ UpdaterLoopIdle
    /\ AllowIdle /\ CacheIdle /\ ListenIdle /\ LogIdle /\ ReturnIdle /\ SerialIdle
    /\ ParseIdle /\ SizeIdle
    /\ \E timeoutSec \in TimeoutSecs : InvokeNew(timeoutSec)

InvokeNext ==
    InvokeProgram \/ TimerCallback \/ LoggerBreak \/ ProgramExit \/ ProgramDie

InvokeSpec == InvokeInit /\ [][InvokeNext]_vars

\* The goroutines are scheduled, the timer fires unless it is stopped, and a
\* program that was sent SIGKILL dies; a program that is not killed may run
\* for ever.
InvokeLiveSpec ==
    InvokeSpec /\ WF_vars(InvokeProgram) /\ WF_vars(TimerCallback) /\ WF_vars(LoggerBreak)
               /\ WF_vars(ProgramDie)

\* The daemon with the loop of its updater, stopped from outside at most once
UpdaterNext ==
    \/ StartAndBlock
    \/ \E k \in Listeners : ListenerRoutine(k)
    \/ Updater
    \/ StopOnce

UpdaterSpec == ListenInit /\ [][UpdaterNext]_vars

\* Every goroutine that can take a step takes it in the end; an update of
\* the blacklist ends; and a select that finds the stop signal ready time
\* after time takes it in the end (the choice among ready cases is random).
UpdaterLiveSpec ==
    /\ UpdaterSpec
    /\ WF_vars(StartAndBlockReceive)
    /\ WF_vars(StartAndBlockStop)
    /\ WF_vars(StopServers)
    /\ SF_vars(UpdaterReturn)
    /\ WF_vars(UpdaterUpdated)
    /\ \A k \in Listeners : WF_vars(ListenerRoutine(k))

\* A request that is an unlock attempt: a POST to the secret path, with the
\* right password or a wrong one
AcceptAttempt(r) == Accept(r) /\ reqs'[r].method = "POST" /\ reqs'[r].path = URL

\* The unlock server when every request is an unlock attempt
AttemptNext ==
    \/ \E r \in Requests : AcceptAttempt(r)
    \/ \E r \in Requests : ServeMux(r)
    \/ \E r \in Requests : PageHandlerHeaders(r)
    \/ \E r \in Requests : PageHandlerLock(r)
    \/ \E r \in Requests : PageHandlerCheck(r)
    \/ \E r \in Requests : PageHandlerMakeRamdisk(r)
    \/ \E r \in Requests : PageHandlerTempFile(r)
    \/ \E r \in Requests : PageHandlerExtract(r)
    \/ LMStart
    \/ LMShutdown
    \/ LMExecutable
    \/ LMChdir
    \/ LMCommand
    \/ LMWait
    \/ LMClean
    \/ LMFatalExit
    \/ LMAbort

AttemptSpec == UnlockInit /\ [][AttemptNext]_vars

\* One call of IsInBlacklist, over the blacklists an update may have left
StripInit ==
    /\ UnlockBoot({})
    /\ CipherIdle
    /\ PipeIdle
    /\ \E bl \in InstalledLists : DnsStart(bl)
    /\ ServicesIdle

StripNext == IsInBlacklistCall

\* The goroutine of the call is scheduled
StripSpec == StripInit /\ [][StripNext]_vars /\ WF_vars(IsInBlacklistCall)

====
